---- MODULE Spec2Model ----
(***************************************************************************)
(* A model of the jsonschema validation-and-coercion engine                *)
(* (src/jsonschema/__init__.py): the scalar variants, the Optional, Any    *)
(* and Constant combinators, the two recursive walks _validate and _parse, *)
(* and the cleaner returned by clean(schema).                              *)
(*                                                                         *)
(* Python values are tagged records.  A Python str is a sequence of        *)
(* characters, so that pattern matching and numeric conversion are         *)
(* computed character by character; a dict is the sequence of its items in *)
(* insertion order, its keys being strs.  Error messages and traces are    *)
(* strings built by concatenation, exactly as the f-strings of the source  *)
(* build them.  An outcome is either a returned value or a raised          *)
(* exception.                                                              *)
(*                                                                         *)
(* Characters.  A printable ASCII character is the string that holds it;   *)
(* tab, line feed, carriage return and form feed are "\t", "\n", "\r" and  *)
(* "\f"; every other character, the grave accent among them, is its code  *)
(* point in upper-case hexadecimal, of four digits at least, written as in *)
(* "<U+0663>", ARABIC-INDIC DIGIT THREE, and "<U+000B>", the vertical tab. *)
(* In a message or a trace a character stands as it does in a str.  The    *)
(* tables below hold the decimal digits, the white space and the code      *)
(* points that are not printable of Unicode 14 (Python 3.11).              *)
(*                                                                         *)
(* Numbers.  An int is an integer of TLC.  A float is the decimal m / 10^e *)
(* that repr() writes for it, or one of inf, -inf, nan and -0.0.  The m of *)
(* a nan names its object: two nans are the same object when their m is    *)
(* equal, and float('nan') makes the object 0.  Numbers that need more     *)
(* than the integers of TLC (an int of 2^31 or more, a float of more than  *)
(* nine digits) and decimal.Decimal values are outside the model, as are   *)
(* the decimals that agree with the middle between two floats in their     *)
(* first 50 digits.                                                        *)
(***************************************************************************)
EXTENDS Integers, Sequences, FiniteSets, TLC

(***************************************************************************)
(* Python values                                                           *)
(***************************************************************************)
NoneV == [t |-> "none"]
BoolV(b) == [t |-> "bool", v |-> b]
IntV(n) == [t |-> "int", v |-> n]
\* the float m / 10^e, m without trailing zeros
FloatV(m, e) == [t |-> "float", kind |-> "finite", m |-> m, e |-> e]
\* float('inf'), float('-inf'), float('nan') and -0.0, for the kinds "inf",
\* "-inf", "nan" and "-0.0"; another nan object has another m
Special(kind) == [t |-> "float", kind |-> kind, m |-> 0, e |-> 0]
StrV(cs) == [t |-> "str", v |-> cs]
\* datetime.date and datetime.datetime
DateV(y, m, d) == [t |-> "date", y |-> y, m |-> m, d |-> d]
DatetimeV(y, m, d, H, M, S, us) ==
    [t |-> "datetime", y |-> y, m |-> m, d |-> d, H |-> H, M |-> M, S |-> S,
     us |-> us]
ListV(items) == [t |-> "list", items |-> items]
TupleV(items) == [t |-> "tuple", items |-> items]
DictV(items) == [t |-> "dict", items |-> items]
Item(k, v) == [k |-> k, v |-> v]

(***************************************************************************)
(* Outcomes: a return value or a raised exception                          *)
(***************************************************************************)
Return(v) == [ok |-> TRUE, val |-> v]
ValidationError(value, message, trace) ==
    [ok |-> FALSE, exc |-> "ValidationError", value |-> value,
     message |-> message, trace |-> trace]
TypeError == [ok |-> FALSE, exc |-> "TypeError"]
ValueError == [ok |-> FALSE, exc |-> "ValueError"]
AssertionError == [ok |-> FALSE, exc |-> "AssertionError"]
IsValidationError(r) == ~r.ok /\ r.exc = "ValidationError"

TRACE_SEP == " --> "

(***************************************************************************)
(* Characters, by code point: the digit zero of every script but ASCII,    *)
(* the digits 1 to 9 of the script following it (the decimal digits are \d *)
(* of a str pattern, and what float() and int() read as digits); the white *)
(* space float() and int() strip; the ranges of the code points that are   *)
(* not printable, which repr() escapes                                     *)
(***************************************************************************)
DigitZeros ==
    {1632, 1776, 1984, 2406, 2534, 2662, 2790, 2918, 3046, 3174, 3302, 3430,
     3558, 3664, 3792, 3872, 4160, 4240, 6112, 6160, 6470, 6608, 6784, 6800,
     6992, 7088, 7232, 7248, 42528, 43216, 43264, 43472, 43504, 43600, 44016,
     65296, 66720, 68912, 69734, 69872, 69942, 70096, 70384, 70736, 70864,
     71248, 71360, 71472, 71904, 72016, 72784, 73040, 73120, 92768, 92864,
     93008, 120782, 120792, 120802, 120812, 120822, 123200, 123632, 125264,
     130032}

Whitespace ==
    {"\t", "\n", "<U+000B>", "\f", "\r", " ", "<U+0085>", "<U+00A0>",
     "<U+1680>", "<U+2000>", "<U+2001>", "<U+2002>", "<U+2003>", "<U+2004>",
     "<U+2005>", "<U+2006>", "<U+2007>", "<U+2008>", "<U+2009>", "<U+200A>",
     "<U+2028>", "<U+2029>", "<U+202F>", "<U+205F>", "<U+3000>"}

NonPrintable ==
    {<<0, 31>>, <<127, 160>>, <<173, 173>>, <<888, 889>>, <<896, 899>>,
     <<907, 907>>, <<909, 909>>, <<930, 930>>, <<1328, 1328>>,
     <<1367, 1368>>, <<1419, 1420>>, <<1424, 1424>>, <<1480, 1487>>,
     <<1515, 1518>>, <<1525, 1541>>, <<1564, 1564>>, <<1757, 1757>>,
     <<1806, 1807>>, <<1867, 1868>>, <<1970, 1983>>, <<2043, 2044>>,
     <<2094, 2095>>, <<2111, 2111>>, <<2140, 2141>>, <<2143, 2143>>,
     <<2155, 2159>>, <<2191, 2199>>, <<2274, 2274>>, <<2436, 2436>>,
     <<2445, 2446>>, <<2449, 2450>>, <<2473, 2473>>, <<2481, 2481>>,
     <<2483, 2485>>, <<2490, 2491>>, <<2501, 2502>>, <<2505, 2506>>,
     <<2511, 2518>>, <<2520, 2523>>, <<2526, 2526>>, <<2532, 2533>>,
     <<2559, 2560>>, <<2564, 2564>>, <<2571, 2574>>, <<2577, 2578>>,
     <<2601, 2601>>, <<2609, 2609>>, <<2612, 2612>>, <<2615, 2615>>,
     <<2618, 2619>>, <<2621, 2621>>, <<2627, 2630>>, <<2633, 2634>>,
     <<2638, 2640>>, <<2642, 2648>>, <<2653, 2653>>, <<2655, 2661>>,
     <<2679, 2688>>, <<2692, 2692>>, <<2702, 2702>>, <<2706, 2706>>,
     <<2729, 2729>>, <<2737, 2737>>, <<2740, 2740>>, <<2746, 2747>>,
     <<2758, 2758>>, <<2762, 2762>>, <<2766, 2767>>, <<2769, 2783>>,
     <<2788, 2789>>, <<2802, 2808>>, <<2816, 2816>>, <<2820, 2820>>,
     <<2829, 2830>>, <<2833, 2834>>, <<2857, 2857>>, <<2865, 2865>>,
     <<2868, 2868>>, <<2874, 2875>>, <<2885, 2886>>, <<2889, 2890>>,
     <<2894, 2900>>, <<2904, 2907>>, <<2910, 2910>>, <<2916, 2917>>,
     <<2936, 2945>>, <<2948, 2948>>, <<2955, 2957>>, <<2961, 2961>>,
     <<2966, 2968>>, <<2971, 2971>>, <<2973, 2973>>, <<2976, 2978>>,
     <<2981, 2983>>, <<2987, 2989>>, <<3002, 3005>>, <<3011, 3013>>,
     <<3017, 3017>>, <<3022, 3023>>, <<3025, 3030>>, <<3032, 3045>>,
     <<3067, 3071>>, <<3085, 3085>>, <<3089, 3089>>, <<3113, 3113>>,
     <<3130, 3131>>, <<3141, 3141>>, <<3145, 3145>>, <<3150, 3156>>,
     <<3159, 3159>>, <<3163, 3164>>, <<3166, 3167>>, <<3172, 3173>>,
     <<3184, 3190>>, <<3213, 3213>>, <<3217, 3217>>, <<3241, 3241>>,
     <<3252, 3252>>, <<3258, 3259>>, <<3269, 3269>>, <<3273, 3273>>,
     <<3278, 3284>>, <<3287, 3292>>, <<3295, 3295>>, <<3300, 3301>>,
     <<3312, 3312>>, <<3315, 3327>>, <<3341, 3341>>, <<3345, 3345>>,
     <<3397, 3397>>, <<3401, 3401>>, <<3408, 3411>>, <<3428, 3429>>,
     <<3456, 3456>>, <<3460, 3460>>, <<3479, 3481>>, <<3506, 3506>>,
     <<3516, 3516>>, <<3518, 3519>>, <<3527, 3529>>, <<3531, 3534>>,
     <<3541, 3541>>, <<3543, 3543>>, <<3552, 3557>>, <<3568, 3569>>,
     <<3573, 3584>>, <<3643, 3646>>, <<3676, 3712>>, <<3715, 3715>>,
     <<3717, 3717>>, <<3723, 3723>>, <<3748, 3748>>, <<3750, 3750>>,
     <<3774, 3775>>, <<3781, 3781>>, <<3783, 3783>>, <<3790, 3791>>,
     <<3802, 3803>>, <<3808, 3839>>, <<3912, 3912>>, <<3949, 3952>>,
     <<3992, 3992>>, <<4029, 4029>>, <<4045, 4045>>, <<4059, 4095>>,
     <<4294, 4294>>, <<4296, 4300>>, <<4302, 4303>>, <<4681, 4681>>,
     <<4686, 4687>>, <<4695, 4695>>, <<4697, 4697>>, <<4702, 4703>>,
     <<4745, 4745>>, <<4750, 4751>>, <<4785, 4785>>, <<4790, 4791>>,
     <<4799, 4799>>, <<4801, 4801>>, <<4806, 4807>>, <<4823, 4823>>,
     <<4881, 4881>>, <<4886, 4887>>, <<4955, 4956>>, <<4989, 4991>>,
     <<5018, 5023>>, <<5110, 5111>>, <<5118, 5119>>, <<5760, 5760>>,
     <<5789, 5791>>, <<5881, 5887>>, <<5910, 5918>>, <<5943, 5951>>,
     <<5972, 5983>>, <<5997, 5997>>, <<6001, 6001>>, <<6004, 6015>>,
     <<6110, 6111>>, <<6122, 6127>>, <<6138, 6143>>, <<6158, 6158>>,
     <<6170, 6175>>, <<6265, 6271>>, <<6315, 6319>>, <<6390, 6399>>,
     <<6431, 6431>>, <<6444, 6447>>, <<6460, 6463>>, <<6465, 6467>>,
     <<6510, 6511>>, <<6517, 6527>>, <<6572, 6575>>, <<6602, 6607>>,
     <<6619, 6621>>, <<6684, 6685>>, <<6751, 6751>>, <<6781, 6782>>,
     <<6794, 6799>>, <<6810, 6815>>, <<6830, 6831>>, <<6863, 6911>>,
     <<6989, 6991>>, <<7039, 7039>>, <<7156, 7163>>, <<7224, 7226>>,
     <<7242, 7244>>, <<7305, 7311>>, <<7355, 7356>>, <<7368, 7375>>,
     <<7419, 7423>>, <<7958, 7959>>, <<7966, 7967>>, <<8006, 8007>>,
     <<8014, 8015>>, <<8024, 8024>>, <<8026, 8026>>, <<8028, 8028>>,
     <<8030, 8030>>, <<8062, 8063>>, <<8117, 8117>>, <<8133, 8133>>,
     <<8148, 8149>>, <<8156, 8156>>, <<8176, 8177>>, <<8181, 8181>>,
     <<8191, 8207>>, <<8232, 8239>>, <<8287, 8303>>, <<8306, 8307>>,
     <<8335, 8335>>, <<8349, 8351>>, <<8385, 8399>>, <<8433, 8447>>,
     <<8588, 8591>>, <<9255, 9279>>, <<9291, 9311>>, <<11124, 11125>>,
     <<11158, 11158>>, <<11508, 11512>>, <<11558, 11558>>, <<11560, 11564>>,
     <<11566, 11567>>, <<11624, 11630>>, <<11633, 11646>>, <<11671, 11679>>,
     <<11687, 11687>>, <<11695, 11695>>, <<11703, 11703>>, <<11711, 11711>>,
     <<11719, 11719>>, <<11727, 11727>>, <<11735, 11735>>, <<11743, 11743>>,
     <<11870, 11903>>, <<11930, 11930>>, <<12020, 12031>>, <<12246, 12271>>,
     <<12284, 12288>>, <<12352, 12352>>, <<12439, 12440>>, <<12544, 12548>>,
     <<12592, 12592>>, <<12687, 12687>>, <<12772, 12783>>, <<12831, 12831>>,
     <<42125, 42127>>, <<42183, 42191>>, <<42540, 42559>>, <<42744, 42751>>,
     <<42955, 42959>>, <<42962, 42962>>, <<42964, 42964>>, <<42970, 42993>>,
     <<43053, 43055>>, <<43066, 43071>>, <<43128, 43135>>, <<43206, 43213>>,
     <<43226, 43231>>, <<43348, 43358>>, <<43389, 43391>>, <<43470, 43470>>,
     <<43482, 43485>>, <<43519, 43519>>, <<43575, 43583>>, <<43598, 43599>>,
     <<43610, 43611>>, <<43715, 43738>>, <<43767, 43776>>, <<43783, 43784>>,
     <<43791, 43792>>, <<43799, 43807>>, <<43815, 43815>>, <<43823, 43823>>,
     <<43884, 43887>>, <<44014, 44015>>, <<44026, 44031>>, <<55204, 55215>>,
     <<55239, 55242>>, <<55292, 63743>>, <<64110, 64111>>, <<64218, 64255>>,
     <<64263, 64274>>, <<64280, 64284>>, <<64311, 64311>>, <<64317, 64317>>,
     <<64319, 64319>>, <<64322, 64322>>, <<64325, 64325>>, <<64451, 64466>>,
     <<64912, 64913>>, <<64968, 64974>>, <<64976, 65007>>, <<65050, 65055>>,
     <<65107, 65107>>, <<65127, 65127>>, <<65132, 65135>>, <<65141, 65141>>,
     <<65277, 65280>>, <<65471, 65473>>, <<65480, 65481>>, <<65488, 65489>>,
     <<65496, 65497>>, <<65501, 65503>>, <<65511, 65511>>, <<65519, 65531>>,
     <<65534, 65535>>, <<65548, 65548>>, <<65575, 65575>>, <<65595, 65595>>,
     <<65598, 65598>>, <<65614, 65615>>, <<65630, 65663>>, <<65787, 65791>>,
     <<65795, 65798>>, <<65844, 65846>>, <<65935, 65935>>, <<65949, 65951>>,
     <<65953, 65999>>, <<66046, 66175>>, <<66205, 66207>>, <<66257, 66271>>,
     <<66300, 66303>>, <<66340, 66348>>, <<66379, 66383>>, <<66427, 66431>>,
     <<66462, 66462>>, <<66500, 66503>>, <<66518, 66559>>, <<66718, 66719>>,
     <<66730, 66735>>, <<66772, 66775>>, <<66812, 66815>>, <<66856, 66863>>,
     <<66916, 66926>>, <<66939, 66939>>, <<66955, 66955>>, <<66963, 66963>>,
     <<66966, 66966>>, <<66978, 66978>>, <<66994, 66994>>, <<67002, 67002>>,
     <<67005, 67071>>, <<67383, 67391>>, <<67414, 67423>>, <<67432, 67455>>,
     <<67462, 67462>>, <<67505, 67505>>, <<67515, 67583>>, <<67590, 67591>>,
     <<67593, 67593>>, <<67638, 67638>>, <<67641, 67643>>, <<67645, 67646>>,
     <<67670, 67670>>, <<67743, 67750>>, <<67760, 67807>>, <<67827, 67827>>,
     <<67830, 67834>>, <<67868, 67870>>, <<67898, 67902>>, <<67904, 67967>>,
     <<68024, 68027>>, <<68048, 68049>>, <<68100, 68100>>, <<68103, 68107>>,
     <<68116, 68116>>, <<68120, 68120>>, <<68150, 68151>>, <<68155, 68158>>,
     <<68169, 68175>>, <<68185, 68191>>, <<68256, 68287>>, <<68327, 68330>>,
     <<68343, 68351>>, <<68406, 68408>>, <<68438, 68439>>, <<68467, 68471>>,
     <<68498, 68504>>, <<68509, 68520>>, <<68528, 68607>>, <<68681, 68735>>,
     <<68787, 68799>>, <<68851, 68857>>, <<68904, 68911>>, <<68922, 69215>>,
     <<69247, 69247>>, <<69290, 69290>>, <<69294, 69295>>, <<69298, 69375>>,
     <<69416, 69423>>, <<69466, 69487>>, <<69514, 69551>>, <<69580, 69599>>,
     <<69623, 69631>>, <<69710, 69713>>, <<69750, 69758>>, <<69821, 69821>>,
     <<69827, 69839>>, <<69865, 69871>>, <<69882, 69887>>, <<69941, 69941>>,
     <<69960, 69967>>, <<70007, 70015>>, <<70112, 70112>>, <<70133, 70143>>,
     <<70162, 70162>>, <<70207, 70271>>, <<70279, 70279>>, <<70281, 70281>>,
     <<70286, 70286>>, <<70302, 70302>>, <<70314, 70319>>, <<70379, 70383>>,
     <<70394, 70399>>, <<70404, 70404>>, <<70413, 70414>>, <<70417, 70418>>,
     <<70441, 70441>>, <<70449, 70449>>, <<70452, 70452>>, <<70458, 70458>>,
     <<70469, 70470>>, <<70473, 70474>>, <<70478, 70479>>, <<70481, 70486>>,
     <<70488, 70492>>, <<70500, 70501>>, <<70509, 70511>>, <<70517, 70655>>,
     <<70748, 70748>>, <<70754, 70783>>, <<70856, 70863>>, <<70874, 71039>>,
     <<71094, 71095>>, <<71134, 71167>>, <<71237, 71247>>, <<71258, 71263>>,
     <<71277, 71295>>, <<71354, 71359>>, <<71370, 71423>>, <<71451, 71452>>,
     <<71468, 71471>>, <<71495, 71679>>, <<71740, 71839>>, <<71923, 71934>>,
     <<71943, 71944>>, <<71946, 71947>>, <<71956, 71956>>, <<71959, 71959>>,
     <<71990, 71990>>, <<71993, 71994>>, <<72007, 72015>>, <<72026, 72095>>,
     <<72104, 72105>>, <<72152, 72153>>, <<72165, 72191>>, <<72264, 72271>>,
     <<72355, 72367>>, <<72441, 72703>>, <<72713, 72713>>, <<72759, 72759>>,
     <<72774, 72783>>, <<72813, 72815>>, <<72848, 72849>>, <<72872, 72872>>,
     <<72887, 72959>>, <<72967, 72967>>, <<72970, 72970>>, <<73015, 73017>>,
     <<73019, 73019>>, <<73022, 73022>>, <<73032, 73039>>, <<73050, 73055>>,
     <<73062, 73062>>, <<73065, 73065>>, <<73103, 73103>>, <<73106, 73106>>,
     <<73113, 73119>>, <<73130, 73439>>, <<73465, 73647>>, <<73649, 73663>>,
     <<73714, 73726>>, <<74650, 74751>>, <<74863, 74863>>, <<74869, 74879>>,
     <<75076, 77711>>, <<77811, 77823>>, <<78895, 82943>>, <<83527, 92159>>,
     <<92729, 92735>>, <<92767, 92767>>, <<92778, 92781>>, <<92863, 92863>>,
     <<92874, 92879>>, <<92910, 92911>>, <<92918, 92927>>, <<92998, 93007>>,
     <<93018, 93018>>, <<93026, 93026>>, <<93048, 93052>>, <<93072, 93759>>,
     <<93851, 93951>>, <<94027, 94030>>, <<94088, 94094>>, <<94112, 94175>>,
     <<94181, 94191>>, <<94194, 94207>>, <<100344, 100351>>,
     <<101590, 101631>>, <<101641, 110575>>, <<110580, 110580>>,
     <<110588, 110588>>, <<110591, 110591>>, <<110883, 110927>>,
     <<110931, 110947>>, <<110952, 110959>>, <<111356, 113663>>,
     <<113771, 113775>>, <<113789, 113791>>, <<113801, 113807>>,
     <<113818, 113819>>, <<113824, 118527>>, <<118574, 118575>>,
     <<118599, 118607>>, <<118724, 118783>>, <<119030, 119039>>,
     <<119079, 119080>>, <<119155, 119162>>, <<119275, 119295>>,
     <<119366, 119519>>, <<119540, 119551>>, <<119639, 119647>>,
     <<119673, 119807>>, <<119893, 119893>>, <<119965, 119965>>,
     <<119968, 119969>>, <<119971, 119972>>, <<119975, 119976>>,
     <<119981, 119981>>, <<119994, 119994>>, <<119996, 119996>>,
     <<120004, 120004>>, <<120070, 120070>>, <<120075, 120076>>,
     <<120085, 120085>>, <<120093, 120093>>, <<120122, 120122>>,
     <<120127, 120127>>, <<120133, 120133>>, <<120135, 120137>>,
     <<120145, 120145>>, <<120486, 120487>>, <<120780, 120781>>,
     <<121484, 121498>>, <<121504, 121504>>, <<121520, 122623>>,
     <<122655, 122879>>, <<122887, 122887>>, <<122905, 122906>>,
     <<122914, 122914>>, <<122917, 122917>>, <<122923, 123135>>,
     <<123181, 123183>>, <<123198, 123199>>, <<123210, 123213>>,
     <<123216, 123535>>, <<123567, 123583>>, <<123642, 123646>>,
     <<123648, 124895>>, <<124903, 124903>>, <<124908, 124908>>,
     <<124911, 124911>>, <<124927, 124927>>, <<125125, 125126>>,
     <<125143, 125183>>, <<125260, 125263>>, <<125274, 125277>>,
     <<125280, 126064>>, <<126133, 126208>>, <<126270, 126463>>,
     <<126468, 126468>>, <<126496, 126496>>, <<126499, 126499>>,
     <<126501, 126502>>, <<126504, 126504>>, <<126515, 126515>>,
     <<126520, 126520>>, <<126522, 126522>>, <<126524, 126529>>,
     <<126531, 126534>>, <<126536, 126536>>, <<126538, 126538>>,
     <<126540, 126540>>, <<126544, 126544>>, <<126547, 126547>>,
     <<126549, 126550>>, <<126552, 126552>>, <<126554, 126554>>,
     <<126556, 126556>>, <<126558, 126558>>, <<126560, 126560>>,
     <<126563, 126563>>, <<126565, 126566>>, <<126571, 126571>>,
     <<126579, 126579>>, <<126584, 126584>>, <<126589, 126589>>,
     <<126591, 126591>>, <<126602, 126602>>, <<126620, 126624>>,
     <<126628, 126628>>, <<126634, 126634>>, <<126652, 126703>>,
     <<126706, 126975>>, <<127020, 127023>>, <<127124, 127135>>,
     <<127151, 127152>>, <<127168, 127168>>, <<127184, 127184>>,
     <<127222, 127231>>, <<127406, 127461>>, <<127491, 127503>>,
     <<127548, 127551>>, <<127561, 127567>>, <<127570, 127583>>,
     <<127590, 127743>>, <<128728, 128732>>, <<128749, 128751>>,
     <<128765, 128767>>, <<128884, 128895>>, <<128985, 128991>>,
     <<129004, 129007>>, <<129009, 129023>>, <<129036, 129039>>,
     <<129096, 129103>>, <<129114, 129119>>, <<129160, 129167>>,
     <<129198, 129199>>, <<129202, 129279>>, <<129620, 129631>>,
     <<129646, 129647>>, <<129653, 129655>>, <<129661, 129663>>,
     <<129671, 129679>>, <<129709, 129711>>, <<129723, 129727>>,
     <<129734, 129743>>, <<129754, 129759>>, <<129768, 129775>>,
     <<129783, 129791>>, <<129939, 129939>>, <<129995, 130031>>,
     <<130042, 131071>>, <<173792, 173823>>, <<177977, 177983>>,
     <<178206, 178207>>, <<183970, 183983>>, <<191457, 194559>>,
     <<195102, 196607>>, <<201547, 917759>>, <<918000, 1114111>>}

\* the character of a code point beyond ASCII, "<U+XXXX>"
Token(cp) ==
    LET Hex == <<"0", "1", "2", "3", "4", "5", "6", "7",
                 "8", "9", "A", "B", "C", "D", "E", "F">>
        RECURSIVE Written(_, _)
        Written(n, w) ==
            IF w = 0 THEN "" ELSE Written(n \div 16, w - 1) \o Hex[(n % 16) + 1]
    IN  "<U+" \o Written(cp, IF cp < 65536 THEN 4 ELSE IF cp < 1048576 THEN 5 ELSE 6)
        \o ">"

Digits == <<"0", "1", "2", "3", "4", "5", "6", "7", "8", "9">>
DigitChars ==
    {Digits[d + 1] : d \in 0..9} \cup {Token(z + d) : z \in DigitZeros, d \in 0..9}
DigitValues ==
    [c \in DigitChars |->
        CHOOSE v \in 0..9 : c = Digits[v + 1] \/ \E z \in DigitZeros : c = Token(z + v)]
IsDigit(c) == c \in DigitChars
DigitVal(c) == DigitValues[c]
AllDigits(cs) == \A i \in 1..Len(cs) : IsDigit(cs[i])

\* the ASCII letters, upper case and lower case
AsciiLetters ==
    <<<<"A", "B", "C", "D", "E", "F", "G", "H", "I", "J", "K", "L", "M",
        "N", "O", "P", "Q", "R", "S", "T", "U", "V", "W", "X", "Y", "Z">>,
      <<"a", "b", "c", "d", "e", "f", "g", "h", "i", "j", "k", "l", "m",
        "n", "o", "p", "q", "r", "s", "t", "u", "v", "w", "x", "y", "z">>>>
\* the lower-case and the upper-case form of an ASCII letter
Lower(c) ==
    IF \E i \in 1..26 : AsciiLetters[1][i] = c
    THEN AsciiLetters[2][CHOOSE i \in 1..26 : AsciiLetters[1][i] = c] ELSE c
Upper(c) ==
    IF \E i \in 1..26 : AsciiLetters[2][i] = c
    THEN AsciiLetters[1][CHOOSE i \in 1..26 : AsciiLetters[2][i] = c] ELSE c

(***************************************************************************)
(* Strings, numbers and the built-ins str(), repr(), float(), ==           *)
(***************************************************************************)
RECURSIVE Join(_)
Join(cs) == IF cs = <<>> THEN "" ELSE cs[1] \o Join(Tail(cs))

RECURSIVE Pow10(_)
Pow10(e) == IF e = 0 THEN 1 ELSE 10 * Pow10(e - 1)

RECURSIVE NatToChars(_)
NatToChars(n) ==
    IF n < 10 THEN <<Digits[n + 1]>>
    ELSE NatToChars(n \div 10) \o <<Digits[(n % 10) + 1]>>

IntToChars(n) == IF n < 0 THEN <<"-">> \o NatToChars(-n) ELSE NatToChars(n)

\* int() of a string of digits
RECURSIVE DigitsToNat(_)
DigitsToNat(cs) ==
    IF cs = <<>> THEN 0
    ELSE 10 * DigitsToNat(SubSeq(cs, 1, Len(cs) - 1)) + DigitVal(cs[Len(cs)])

\* n written with w digits at least
RECURSIVE Padded(_, _)
Padded(n, w) ==
    IF Len(NatToChars(n)) >= w THEN NatToChars(n)
    ELSE <<"0">> \o Padded(n, w - 1)

\* the float m / 10^e with the trailing zeros of m removed
RECURSIVE Canon(_, _)
Canon(m, e) ==
    IF m = 0 THEN FloatV(0, 0)
    ELSE IF m % 10 = 0 THEN Canon(m \div 10, e - 1)
    ELSE FloatV(m, e)

IsNumeric(x) == x.t \in {"bool", "int", "float"}
Mant(x) == CASE x.t = "bool" -> (IF x.v THEN 1 ELSE 0)
             [] x.t = "int" -> x.v
             [] x.t = "float" -> x.m
Expo(x) == IF x.t = "float" THEN x.e ELSE 0
Kind(x) == IF x.t = "float" THEN x.kind ELSE "finite"
Abs(n) == IF n < 0 THEN -n ELSE n

\* a string of ASCII digits comes before another in the order of a
\* dictionary, a string before its extensions
RECURSIVE DigitsLess(_, _)
DigitsLess(a, b) ==
    IF b = <<>> THEN FALSE
    ELSE IF a = <<>> THEN TRUE
    ELSE IF a[1] = b[1] THEN DigitsLess(Tail(a), Tail(b))
    ELSE DigitVal(a[1]) < DigitVal(b[1])

\* the exponent of m / 10^e in scientific notation, m # 0
Scientific(m, e) == Len(NatToChars(Abs(m))) - 1 - e
\* a < b for two positive floats without trailing zeros
PositiveLess(a, b) ==
    IF Scientific(a.m, a.e) # Scientific(b.m, b.e)
    THEN Scientific(a.m, a.e) < Scientific(b.m, b.e)
    ELSE DigitsLess(NatToChars(Abs(a.m)), NatToChars(Abs(b.m)))
\* a < b for two finite floats without trailing zeros
FiniteLess(a, b) ==
    IF a.m > 0 /\ b.m > 0 THEN PositiveLess(a, b)
    ELSE IF a.m < 0 /\ b.m < 0 THEN PositiveLess(b, a)
    ELSE a.m < b.m
\* where a number stands among -inf, the finite numbers and inf
Rank(x) == CASE Kind(x) = "-inf" -> -1 [] Kind(x) = "inf" -> 1 [] OTHER -> 0

\* a < b and a == b for numbers; every comparison with nan is False
NumLess(a, b) ==
    IF Kind(a) = "nan" \/ Kind(b) = "nan" THEN FALSE
    ELSE IF Rank(a) # 0 \/ Rank(b) # 0 THEN Rank(a) < Rank(b)
    ELSE FiniteLess(Canon(Mant(a), Expo(a)), Canon(Mant(b), Expo(b)))
NumEq(a, b) ==
    IF Kind(a) = "nan" \/ Kind(b) = "nan" THEN FALSE
    ELSE IF Rank(a) # 0 \/ Rank(b) # 0 THEN Rank(a) = Rank(b)
    ELSE Canon(Mant(a), Expo(a)) = Canon(Mant(b), Expo(b))

\* dict lookups
HasKey(items, k) == \E i \in 1..Len(items) : items[i].k = k
Lookup(items, k) == items[CHOOSE i \in 1..Len(items) : items[i].k = k].v
\* variant.get(k)
DictGet(items, k) == IF HasKey(items, k) THEN Lookup(items, k) ELSE NoneV

\* a is b, where it differs from a == b: the same nan object
SameNaN(a, b) ==
    /\ a.t = "float" /\ b.t = "float"
    /\ a.kind = "nan" /\ b.kind = "nan" /\ a.m = b.m
\* Python ==: numbers by value, lists and tuples element by element, dicts
\* key by key whatever the order of their items; what a container holds is
\* equal when it is the same object or when == says so
RECURSIVE PyEq(_, _)
PyEq(a, b) ==
    IF IsNumeric(a) /\ IsNumeric(b) THEN NumEq(a, b)
    ELSE IF a.t # b.t THEN FALSE
    ELSE IF a.t \in {"list", "tuple"}
    THEN /\ Len(a.items) = Len(b.items)
         /\ \A i \in 1..Len(a.items) :
               SameNaN(a.items[i], b.items[i]) \/ PyEq(a.items[i], b.items[i])
    ELSE IF a.t = "dict"
    THEN /\ Len(a.items) = Len(b.items)
         /\ \A i \in 1..Len(a.items) :
               /\ HasKey(b.items, a.items[i].k)
               /\ \/ SameNaN(a.items[i].v, Lookup(b.items, a.items[i].k))
                  \/ PyEq(a.items[i].v, Lookup(b.items, a.items[i].k))
    ELSE a = b

\* repr() of a float.  A finite float with digits ds and scientific exponent
\* x is written with its exponent when x is below -4 or 16 and more
FloatChars(x) ==
    LET Zeros(n) == [i \in 1..n |-> "0"]
        FiniteChars(ds, sx) ==
            IF sx < -4 \/ sx >= 16
            THEN <<ds[1]>> \o (IF Len(ds) > 1 THEN <<".">> \o Tail(ds) ELSE <<>>)
                 \o <<"e", IF sx < 0 THEN "-" ELSE "+">> \o Padded(Abs(sx), 2)
            ELSE IF sx >= Len(ds) - 1
            THEN ds \o Zeros(sx - (Len(ds) - 1)) \o <<".", "0">>
            ELSE IF sx >= 0
            THEN SubSeq(ds, 1, sx + 1) \o <<".">> \o SubSeq(ds, sx + 2, Len(ds))
            ELSE <<"0", ".">> \o Zeros(-sx - 1) \o ds
    IN  CASE x.kind = "inf" -> <<"i", "n", "f">>
          [] x.kind = "-inf" -> <<"-", "i", "n", "f">>
          [] x.kind = "nan" -> <<"n", "a", "n">>
          [] x.kind = "-0.0" -> <<"-", "0", ".", "0">>
          [] x.m = 0 -> <<"0", ".", "0">>
          [] OTHER ->
                (IF x.m < 0 THEN <<"-">> ELSE <<>>)
                \o FiniteChars(NatToChars(Abs(Canon(x.m, x.e).m)),
                               Scientific(x.m, x.e))

\* the quote repr() puts around a str: " when the str holds ' and no "
Quote(cs) ==
    IF (\E i \in 1..Len(cs) : cs[i] = "'") /\ ~(\E i \in 1..Len(cs) : cs[i] = "\"")
    THEN "\"" ELSE "'"
\* the code point of a character written as "<U+XXXX>"
CodePoint(c) ==
    LET Hex == <<"0", "1", "2", "3", "4", "5", "6", "7",
                 "8", "9", "A", "B", "C", "D", "E", "F">>
        RECURSIVE Value(_)
        Value(hs) ==
            IF Len(hs) = 0 THEN 0
            ELSE 16 * Value(SubSeq(hs, 1, Len(hs) - 1))
                 + (CHOOSE v \in 0..15 : Hex[v + 1] = SubSeq(hs, Len(hs), Len(hs))) 
    IN  Value(SubSeq(c, 4, Len(c) - 1))
\* a character as repr() writes it, quotes and backslashes apart: itself
\* when it is printable, or else \t, \n, \r, \xhh, \uhhhh or \Uhhhhhhhh
ReprEscape(c) ==
    LET Hex == <<"0", "1", "2", "3", "4", "5", "6", "7",
                 "8", "9", "a", "b", "c", "d", "e", "f">>
        Escape(letter, n, w) ==
            <<"\\", letter>> \o [i \in 1..w |-> Hex[((n \div 16^(w - i)) % 16) + 1]]
        Coded(n) ==
            IF \A r \in NonPrintable : n < r[1] \/ n > r[2] THEN <<c>>
            ELSE IF n < 256 THEN Escape("x", n, 2)
            ELSE IF n < 65536 THEN Escape("u", n, 4)
            ELSE Escape("U", n, 8)
    IN  CASE c = "\t" -> <<"\\", "t">>
          [] c = "\n" -> <<"\\", "n">>
          [] c = "\r" -> <<"\\", "r">>
          [] c = "\f" -> <<"\\", "x", "0", "c">>
          [] Len(c) = 1 -> <<c>>
          [] OTHER -> Coded(CodePoint(c))
\* the characters of a str as repr() writes them between the quotes
RECURSIVE Escaped(_, _)
Escaped(cs, quote) ==
    IF cs = <<>> THEN <<>>
    ELSE (IF cs[1] = quote \/ cs[1] = "\\" THEN <<"\\", cs[1]>>
          ELSE ReprEscape(cs[1]))
         \o Escaped(Tail(cs), quote)


RECURSIVE PyRepr(_)
RECURSIVE ReprItems(_, _)
PyRepr(x) ==
    CASE x.t = "none" -> <<"N", "o", "n", "e">>
      [] x.t = "bool" -> IF x.v THEN <<"T", "r", "u", "e">>
                         ELSE <<"F", "a", "l", "s", "e">>
      [] x.t = "int" -> IntToChars(x.v)
      [] x.t = "float" -> FloatChars(x)
      [] x.t = "str" -> <<Quote(x.v)>> \o Escaped(x.v, Quote(x.v)) \o <<Quote(x.v)>>
      [] x.t = "date" ->
            <<"d", "a", "t", "e", "t", "i", "m", "e", ".", "d", "a", "t", "e", "(">>
            \o NatToChars(x.y) \o <<",", " ">> \o NatToChars(x.m) \o <<",", " ">>
            \o NatToChars(x.d) \o <<")">>
      \* the seconds and the microseconds are written when they are not zero
      [] x.t = "datetime" ->
            <<"d", "a", "t", "e", "t", "i", "m", "e", ".", "d", "a", "t", "e", "t", "i", "m", "e", "(">>
            \o NatToChars(x.y) \o <<",", " ">> \o NatToChars(x.m) \o <<",", " ">>
            \o NatToChars(x.d) \o <<",", " ">> \o NatToChars(x.H) \o <<",", " ">>
            \o NatToChars(x.M)
            \o (IF x.S # 0 \/ x.us # 0 THEN <<",", " ">> \o NatToChars(x.S) ELSE <<>>)
            \o (IF x.us # 0 THEN <<",", " ">> \o NatToChars(x.us) ELSE <<>>)
            \o <<")">>
      [] x.t = "list" -> <<"[">> \o ReprItems(x.items, FALSE) \o <<"]">>
      [] x.t = "tuple" ->
            <<"(">> \o ReprItems(x.items, FALSE)
            \o (IF Len(x.items) = 1 THEN <<",">> ELSE <<>>) \o <<")">>
      [] x.t = "dict" -> <<"{">> \o ReprItems(x.items, TRUE) \o <<"}">>
ReprItems(items, isDict) ==
    IF items = <<>> THEN <<>>
    ELSE (IF isDict
          THEN PyRepr(StrV(items[1].k)) \o <<":", " ">> \o PyRepr(items[1].v)
          ELSE PyRepr(items[1]))
         \o (IF Len(items) > 1 THEN <<",", " ">> ELSE <<>>)
         \o ReprItems(Tail(items), isDict)

\* str(value)
PyStr(x) ==
    LET \* date.isoformat()
        DateIso ==
            Padded(x.y, 4) \o <<"-">> \o Padded(x.m, 2) \o <<"-">> \o Padded(x.d, 2)
    IN  CASE x.t = "str" -> x.v
          [] x.t = "date" -> DateIso
          [] x.t = "datetime" ->
                DateIso \o <<" ">> \o Padded(x.H, 2) \o <<":">> \o Padded(x.M, 2)
                \o <<":">> \o Padded(x.S, 2)
                \o (IF x.us # 0 THEN <<".">> \o Padded(x.us, 6) ELSE <<>>)
          [] OTHER -> PyRepr(x)

(***************************************************************************)
(* float(value)                                                            *)
(***************************************************************************)
\* the characters as float() reads them: white space is a space, a digit of
\* any script the ASCII digit
AsciiOf(cs) ==
    [i \in 1..Len(cs) |->
        IF cs[i] \in Whitespace THEN " "
        ELSE IF IsDigit(cs[i]) THEN Digits[DigitVal(cs[i]) + 1]
        ELSE cs[i]]

\* the white space around the number is ignored
RECURSIVE Strip(_)
Strip(cs) ==
    IF cs = <<>> THEN cs
    ELSE IF cs[1] \in Whitespace THEN Strip(Tail(cs))
    ELSE IF cs[Len(cs)] \in Whitespace THEN Strip(SubSeq(cs, 1, Len(cs) - 1))
    ELSE cs

\* an underscore may stand between two digits and nowhere else
UnderscoresOK(cs) ==
    \A i \in 1..Len(cs) :
        cs[i] = "_" =>
            /\ i > 1 /\ IsDigit(cs[i - 1])
            /\ i < Len(cs) /\ IsDigit(cs[i + 1])
WithoutUnderscores(cs) ==
    LET NotUnderscore(c) == c # "_" IN SelectSeq(cs, NotUnderscore)

RECURSIVE LeftStripZeros(_)
LeftStripZeros(cs) ==
    IF cs # <<>> /\ cs[1] = "0" THEN LeftStripZeros(Tail(cs)) ELSE cs
RECURSIVE RightStripZeros(_)
RightStripZeros(cs) ==
    IF cs # <<>> /\ cs[Len(cs)] = "0"
    THEN RightStripZeros(SubSeq(cs, 1, Len(cs) - 1)) ELSE cs

\* the first 50 digits of 2^1024 - 2^970, from which on a decimal rounds to
\* inf, and of 2^-1075 = 2.47...e-324, half the distance between two
\* floats below 2^-1022
FloatLimits ==
    [overflow |-> <<"1", "7", "9", "7", "6", "9", "3", "1", "3", "4", "8", "6", "2", "3", "1", "5", "8", "0", "7", "9", "3", "7", "2", "8", "9", "7", "1", "4", "0", "5", "3", "0", "3", "4", "1", "5", "0", "7", "9", "9", "3", "4", "1", "3", "2", "7", "1", "0", "0", "3">>,
     half |-> <<"2", "4", "7", "0", "3", "2", "8", "2", "2", "9", "2", "0", "6", "2", "3", "2", "7", "2", "0", "8", "8", "2", "8", "4", "3", "9", "6", "4", "3", "4", "1", "1", "0", "6", "8", "6", "1", "8", "2", "5", "2", "9", "9", "0", "1", "3", "0", "7", "1", "6">>]

\* the float nearest to the decimal ds[1].ds[2]... * 10^x below
\* (2^31 - 1) * 2^-1075, where the floats are the multiples of 2^-1074: the
\* k-th of them when k of the odd multiples of 2^-1075 are at or below the
\* decimal, written as repr() writes it, with the fewest digits that no
\* other float is nearest to.  The arithmetic is on digits, four at a time.
Subnormal(ds, x) ==
    LET High(a) == SubSeq(a, 1, Len(a) - 4)
        Low(a) == DigitsToNat(SubSeq(a, IF Len(a) > 4 THEN Len(a) - 3 ELSE 1, Len(a)))
        \* a + b + carry
        RECURSIVE Plus(_, _, _)
        Plus(a, b, carry) ==
            IF Len(a) <= 4 /\ Len(b) <= 4 THEN NatToChars(Low(a) + Low(b) + carry)
            ELSE Plus(High(a), High(b), (Low(a) + Low(b) + carry) \div 10000)
                 \o Padded((Low(a) + Low(b) + carry) % 10000, 4)
        \* a * n + carry, n < 10000
        RECURSIVE TimesSmall(_, _, _)
        TimesSmall(a, n, carry) ==
            IF Len(a) <= 4 THEN NatToChars(Low(a) * n + carry)
            ELSE TimesSmall(High(a), n, (Low(a) * n + carry) \div 10000)
                 \o Padded((Low(a) * n + carry) % 10000, 4)
        \* a * n, n > 0
        RECURSIVE Times(_, _)
        Times(a, n) ==
            IF n < 10000 THEN TimesSmall(a, n, 0)
            ELSE Plus(Times(a, n \div 10000) \o <<"0", "0", "0", "0">>,
                      TimesSmall(a, n % 10000, 0), 0)
        \* a[1].a[2]... * 10^ax < b[1].b[2]... * 10^bx
        Less(a, ax, b, bx) ==
            ax < bx \/ (ax = bx /\ DigitsLess(RightStripZeros(a), RightStripZeros(b)))
        \* n * 2^-1075 in digits, and its scientific exponent
        Halves(n) == Times(FloatLimits.half, n)
        HalvesExp(p) == -324 + Len(p) - Len(FloatLimits.half)
        BelowHalves(a, ax, p) == Less(a, ax, p, HalvesExp(p))
        AboveHalves(a, ax, p) == Less(p, HalvesExp(p), a, ax)
        \* the odd multiples at or below the decimal, k of them being known
        \* and the others counted from the digit of this unit down
        AtOrBelow(j) == j = 0 \/ ~BelowHalves(ds, x, Halves(2 * j - 1))
        Digit(k, unit) ==
            CHOOSE d \in 0..9 :
                /\ d <= (1073741823 - k) \div unit /\ AtOrBelow(k + d * unit)
                /\ \/ d = 9 \/ d + 1 > (1073741823 - k) \div unit
                   \/ ~AtOrBelow(k + (d + 1) * unit)
        RECURSIVE Count(_, _)
        Count(k, unit) ==
            IF unit = 1 THEN k + Digit(k, 1)
            ELSE Count(k + Digit(k, unit) * unit, unit \div 10)
        \* v rounded to p digits
        Rounded(v, p) ==
            IF DigitVal(v[p + 1]) >= 5 THEN Plus(SubSeq(v, 1, p), <<"1">>, 0)
            ELSE SubSeq(v, 1, p)
        Written(r, rx) ==
            FloatV(DigitsToNat(RightStripZeros(r)), Len(RightStripZeros(r)) - 1 - rx)
        \* k * 2^-1074, whose digits are v, written with p digits or more
        RECURSIVE Shortest(_, _, _)
        Tried(k, v, p, r, rx) ==
            IF /\ AboveHalves(r, rx, Halves(2 * k - 1))
               /\ BelowHalves(r, rx, Halves(2 * k + 1))
            THEN Written(r, rx)
            ELSE Shortest(k, v, p + 1)
        Shortest(k, v, p) ==
            Tried(k, v, p, Rounded(v, p), HalvesExp(v) + Len(Rounded(v, p)) - p)
        Multiple(k) ==
            IF k = 0 THEN FloatV(0, 0) ELSE Shortest(k, Halves(2 * k), 1)
    IN  Multiple(Count(0, 1000000000))

\* the float nearest to the decimal ds[1].ds[2]... * 10^x, ds without
\* leading or trailing zeros: its magnitude, x being its scientific exponent
Magnitude(ds, x) ==
    IF ds = <<>> THEN FloatV(0, 0)
    ELSE IF x > 308 \/ (x = 308 /\ ~DigitsLess(ds, FloatLimits.overflow))
    THEN Special("inf")
    ELSE IF x < -315 \/ (x = -315 /\ DigitsLess(ds, <<"5", "3", "0", "4", "9", "8", "9", "4", "7", "4", "9", "4", "2", "8", "5", "2">>))
    THEN Subnormal(ds, x)
    ELSE FloatV(DigitsToNat(ds), Len(ds) - 1 - x)
Negated(x) ==
    CASE x.kind = "inf" -> Special("-inf")
      [] x.kind = "finite" /\ x.m = 0 -> Special("-0.0")
      [] OTHER -> FloatV(-x.m, x.e)
\* the float for the digits ds, a point before the last e of them
Decimal(neg, ds, e) ==
    IF neg
    THEN Negated(Magnitude(RightStripZeros(LeftStripZeros(ds)),
                           Len(LeftStripZeros(ds)) - 1 - e))
    ELSE Magnitude(RightStripZeros(LeftStripZeros(ds)),
                   Len(LeftStripZeros(ds)) - 1 - e)

\* float(value) for the characters of a str, the white space stripped:
\* [sign] (inf | infinity | nan) in any case, or
\* [sign] [digits] [. [digits]] [(e | E) [sign] digits] with one digit at
\* least before the exponent
FloatOfStripped(cs) ==
    LET HasSign(s, i) == i <= Len(s) /\ s[i] \in {"+", "-"}
        \* the first position from i on that holds no digit
        RECURSIVE SpanDigits(_, _)
        SpanDigits(s, i) ==
            IF i <= Len(s) /\ IsDigit(s[i]) THEN SpanDigits(s, i + 1) ELSE i
        \* the exponent written by the digits ds, however many there are
        ExponentOf(neg, ds) ==
            IF Len(LeftStripZeros(ds)) > 6 THEN (IF neg THEN -1000000 ELSE 1000000)
            ELSE IF neg THEN -DigitsToNat(ds) ELSE DigitsToNat(ds)
        \* where the digits of the exponent start when the e is at q
        ExponentStart(s, q) == IF HasSign(s, q + 1) THEN q + 2 ELSE q + 1
        \* p is where the integer part ends, q where the fraction ends
        NumberOf(neg, s, p, q) ==
            IF (p - 1) + (IF q > p THEN q - p - 1 ELSE 0) = 0 THEN ValueError
            ELSE IF q = Len(s) + 1
            THEN Return(Decimal(neg, SubSeq(s, 1, p - 1) \o SubSeq(s, p + 1, q - 1),
                                IF q > p THEN q - p - 1 ELSE 0))
            ELSE IF Lower(s[q]) # "e" THEN ValueError
            ELSE IF ExponentStart(s, q) > Len(s)
                    \/ SpanDigits(s, ExponentStart(s, q)) # Len(s) + 1
            THEN ValueError
            ELSE Return(Decimal(neg, SubSeq(s, 1, p - 1) \o SubSeq(s, p + 1, q - 1),
                                (IF q > p THEN q - p - 1 ELSE 0)
                                - ExponentOf(HasSign(s, q + 1) /\ s[q + 1] = "-",
                                             SubSeq(s, ExponentStart(s, q), Len(s)))))
        \* where the fraction ends when the integer part ends at p
        FractionEnd(s, p) ==
            IF p <= Len(s) /\ s[p] = "." THEN SpanDigits(s, p + 1) ELSE p
        Unsigned(neg, s) ==
            IF [i \in 1..Len(s) |-> Lower(s[i])] \in {<<"i", "n", "f">>, <<"i", "n", "f", "i", "n", "i", "t", "y">>}
            THEN Return(IF neg THEN Special("-inf") ELSE Special("inf"))
            ELSE IF [i \in 1..Len(s) |-> Lower(s[i])] = <<"n", "a", "n">>
            THEN Return(Special("nan"))
            ELSE NumberOf(neg, s, SpanDigits(s, 1), FractionEnd(s, SpanDigits(s, 1)))
    IN  IF HasSign(cs, 1) THEN Unsigned(cs[1] = "-", Tail(cs))
        ELSE Unsigned(FALSE, cs)
\* float(value) for the characters of a str
FloatOfChars(value) ==
    IF ~UnderscoresOK(AsciiOf(value)) THEN ValueError
    ELSE FloatOfStripped(Strip(WithoutUnderscores(AsciiOf(value))))

PyFloat(x) ==
    CASE x.t \in {"bool", "int"} -> Return(Canon(Mant(x), 0))
      [] x.t = "float" -> Return(x)
      [] x.t = "str" -> FloatOfChars(x.v)
      [] OTHER -> TypeError

(***************************************************************************)
(* Schema nodes.  A Type instance is a record tagged with its class name;  *)
(* dict, list and tuple schemas are the container records above, holding   *)
(* schema nodes; any other object is NotASchema.  An absent min, max or    *)
(* regex is the empty sequence, a present one is <<n>>.  A constructor     *)
(* returns the instance or the exception it raises.                        *)
(***************************************************************************)
TypeNames ==
    {"Type", "String", "RegexString", "Number", "Null", "Date", "Datetime",
     "Boolean", "Optional", "Any", "Constant"}
IsType(schema) == schema.t \in TypeNames
\* an argument that has raised instead of giving a value
HasRaised(x) == "ok" \in DOMAIN x
\* isinstance(x, (Type, dict, list, tuple))
IsTypeOrAggregate(x) == IsType(x) \/ x.t \in {"dict", "list", "tuple"}

Type(condition) == [t |-> "Type", condition |-> condition]
\* Variant = Type
Variant(condition) == Type(condition)
String(strict, condition) == [t |-> "String", strict |-> strict, condition |-> condition]
Number_pattern == "^\\d+(\\.\\d+)?$"
Date_pattern == "^\\d{4}-\\d{2}-\\d{2}$"
Datetime_pattern == "^\\d{4}-\\d{2}-\\d{2}T\\d{2}:\\d{2}:\\d{2}(\\.\\d*)?Z?$"
\* re.compile(regex) raises TypeError for None; the regexes the model can
\* match are the three patterns of the source
RegexString(regex, condition) ==
    IF regex = <<>> THEN TypeError
    ELSE [t |-> "RegexString", regex |-> regex[1], condition |-> condition]
Number(min, max, strict, condition) ==
    [t |-> "Number", min |-> min, max |-> max, strict |-> strict,
     condition |-> condition]
Null == [t |-> "Null"]
Date(condition) == [t |-> "Date", regex |-> Date_pattern, condition |-> condition]
Datetime(condition) ==
    [t |-> "Datetime", regex |-> Datetime_pattern, condition |-> condition]
Boolean(strict) == [t |-> "Boolean", strict |-> strict]
Optional(othertype) ==
    IF HasRaised(othertype) THEN othertype
    ELSE IF ~IsTypeOrAggregate(othertype) THEN AssertionError
    ELSE [t |-> "Optional", othertype |-> othertype]
\* Any(first, *others): types holds first and the others
AnyOf(types) ==
    IF \E i \in 1..Len(types) : HasRaised(types[i])
    THEN types[CHOOSE i \in 1..Len(types) :
                 HasRaised(types[i]) /\ \A j \in 1..(i - 1) : ~HasRaised(types[j])]
    ELSE IF types = <<>> THEN TypeError
    ELSE IF \E i \in 1..Len(types) : ~IsTypeOrAggregate(types[i]) THEN AssertionError
    ELSE [t |-> "Any", types |-> types]
Constant(constant) == [t |-> "Constant", constant |-> constant]
NotASchema == [t |-> "object"]

(***************************************************************************)
(* Condition predicates are supplied by the caller.  The model knows five: *)
(*   "None"      no condition given (Type.__init__ installs lambda x: True)*)
(*   "lt2"       lambda x: x < 2                                           *)
(*   "failpos"   lambda x: fail('must not be positive') if x > 0 else True *)
(*   "barepos"   as failpos, raising ValueError() without arguments        *)
(*   "after2017" the condition of usage.py: lambda d:                      *)
(*               fail('date must be later than 2017-01-01')                *)
(*               if d > datetime.datetime(2017, 1, 1) else True            *)
(* The outcome is the value returned, or the args of the exception raised. *)
(* Comparing values of unrelated types raises TypeError with its message.  *)
(***************************************************************************)
CondReturn(passes) == [raised |-> FALSE, passes |-> passes]
CondRaise(args) == [raised |-> TRUE, args |-> args]
PyTypeName(x) ==
    CASE x.t = "none" -> "NoneType"
      [] x.t = "date" -> "datetime.date"
      [] x.t = "datetime" -> "datetime.datetime"
      [] OTHER -> x.t
NotSupported(op, x, other) ==
    CondRaise(<<"'" \o op \o "' not supported between instances of '"
                \o PyTypeName(x) \o "' and '" \o other \o "'">>)
\* d > datetime.datetime(2017, 1, 1)
After2017(d) ==
    \/ d.y > 2017
    \/ d.y = 2017 /\ (d.m > 1 \/ d.d > 1 \/ d.H > 0 \/ d.M > 0 \/ d.S > 0 \/ d.us > 0)
condition(c, parsed) ==
    CASE c = "None" -> CondReturn(TRUE)
      [] c = "lt2" ->
            IF IsNumeric(parsed)
            THEN CondReturn(NumLess(parsed, IntV(2)))
            ELSE NotSupported("<", parsed, "int")
      [] c = "failpos" ->
            IF IsNumeric(parsed)
            THEN (IF NumLess(IntV(0), parsed)
                  THEN CondRaise(<<"must not be positive">>) ELSE CondReturn(TRUE))
            ELSE NotSupported(">", parsed, "int")
      [] c = "barepos" ->
            IF IsNumeric(parsed)
            THEN (IF NumLess(IntV(0), parsed) THEN CondRaise(<<>>) ELSE CondReturn(TRUE))
            ELSE NotSupported(">", parsed, "int")
      [] c = "after2017" ->
            IF parsed.t = "datetime"
            THEN (IF After2017(parsed)
                  THEN CondRaise(<<"date must be later than 2017-01-01">>)
                  ELSE CondReturn(TRUE))
            ELSE IF parsed.t = "date"
            THEN CondRaise(<<"can't compare datetime.datetime to datetime.date">>)
            ELSE NotSupported(">", parsed, "datetime.datetime")

\* ValidationError.__str__ and ValidationError.__repr__
ValidationError_str(self) == Join(PyStr(self.value)) \o " " \o self.message
ValidationError_repr(self) ==
    "jsonschema.ValidationError: " \o ValidationError_str(self)
    \o " ; Trace: " \o self.trace

\* Type.invalid
Type_invalid(self, value, message) == ValidationError(value, message, self.t)

(***************************************************************************)
(* String                                                                  *)
(***************************************************************************)
String_validate(self, value) ==
    IF self.strict /\ value.t # "str"
    THEN Type_invalid(self, value, "is not a string")
    ELSE Return(NoneV)

String_parse(self, value) == Return(StrV(PyStr(value)))

(***************************************************************************)
(* Number                                                                  *)
(***************************************************************************)
\* what a pattern ending in $ has to match: $ matches at the end of the
\* string and also just before a newline that ends it
BeforeDollar(cs) ==
    {cs} \cup (IF cs # <<>> /\ cs[Len(cs)] = "\n"
               THEN {SubSeq(cs, 1, Len(cs) - 1)} ELSE {})

\* re.compile('^\d+(\.\d+)?$').match
Number_match(value) ==
    \E cs \in BeforeDollar(value) :
       \/ cs # <<>> /\ AllDigits(cs)
       \/ \E p \in 2..(Len(cs) - 1) :
             /\ cs[p] = "."
             /\ AllDigits(SubSeq(cs, 1, p - 1))
             /\ AllDigits(SubSeq(cs, p + 1, Len(cs)))

Number_validate(self, value) ==
    IF IsNumeric(value) THEN Return(NoneV)
    ELSE IF self.strict THEN Type_invalid(self, value, "is not a number")
    ELSE IF value.t # "str" THEN Type_invalid(self, value, "is not a number")
    ELSE IF ~Number_match(value.v)
    THEN Type_invalid(self, value, "is not a validly formatted number")
    ELSE Return(NoneV)

\* parsed if not parsed.is_integer() else int(parsed): inf and nan are no
\* integers, -0.0 is
IntIfInteger(parsed) ==
    IF ~parsed.ok THEN parsed
    ELSE IF parsed.val.kind \in {"inf", "-inf", "nan"} THEN parsed
    ELSE IF parsed.val.e <= 0
    THEN Return(IntV(parsed.val.m * Pow10(-parsed.val.e)))
    ELSE parsed
Number_parse(self, value) == IntIfInteger(PyFloat(value))

(***************************************************************************)
(* Null                                                                    *)
(***************************************************************************)
Null_validate(self, value) ==
    IF value.t # "none" THEN Type_invalid(self, value, "is not null")
    ELSE Return(NoneV)

(***************************************************************************)
(* RegexString and its subclasses Date and Datetime                        *)
(***************************************************************************)
\* cs is as long as the shape, with a digit wherever the shape has a "d" and
\* the character of the shape elsewhere
HasShape(cs, shape) ==
    /\ Len(cs) = Len(shape)
    /\ \A i \in 1..Len(shape) :
          IF shape[i] = "d" THEN IsDigit(cs[i]) ELSE cs[i] = shape[i]

\* re.compile(regex).match, for the patterns of Date and of Datetime
Date_match(value) ==
    \E cs \in BeforeDollar(value) :
       HasShape(cs, <<"d", "d", "d", "d", "-", "d", "d", "-", "d", "d">>)
\* what follows the seconds is (\.\d*)?Z?
Datetime_match(value) ==
    \E cs \in BeforeDollar(value) :
       /\ Len(cs) >= 19
       /\ HasShape(SubSeq(cs, 1, 19),
                   <<"d", "d", "d", "d", "-", "d", "d", "-", "d", "d",
                     "T", "d", "d", ":", "d", "d", ":", "d", "d">>)
       /\ \E z \in {0, 1} :
             /\ z = 1 => cs[Len(cs)] = "Z"
             /\ Len(cs) - z >= 19
             /\ \/ Len(cs) - z = 19
                \/ /\ cs[20] = "."
                   /\ AllDigits(SubSeq(cs, 21, Len(cs) - z))
\* self.match
match(self, cs) ==
    CASE self.regex = Date_pattern -> Date_match(cs)
      [] self.regex = Datetime_pattern -> Datetime_match(cs)
      [] self.regex = Number_pattern -> Number_match(cs)

\* RegexString.validate: matching a value that is no str raises, which is caught
RegexString_validate(self, value) ==
    IF value.t # "str" \/ ~match(self, value.v)
    THEN Type_invalid(self, value, "doesn't match pattern " \o self.regex)
    ELSE Return(NoneV)

(***************************************************************************)
(* datetime.datetime.strptime.  A format is the sequence of its directives *)
(* and literal characters.  Each becomes a group of the regular expression *)
(* _strptime compiles, with re.IGNORECASE: the alternatives of the group   *)
(* in order, an alternative being the classes of characters it matches one *)
(* after the other.                                                        *)
(***************************************************************************)
\* [lo-hi]
D(lo, hi) == {Digits[i + 1] : i \in lo..hi}
\* the regular expression of a directive, \d being DigitChars and the
\* alternatives of %f, [0-9]{1,6}, the longest first; a literal character
\* matches in both cases
Directive(d) ==
    CASE d = "%Y" -> <<<<DigitChars, DigitChars, DigitChars, DigitChars>>>>
      [] d = "%m" -> <<<<D(1, 1), D(0, 2)>>, <<D(0, 0), D(1, 9)>>, <<D(1, 9)>>>>
      [] d = "%d" -> <<<<D(3, 3), D(0, 1)>>, <<D(1, 2), DigitChars>>,
                       <<D(0, 0), D(1, 9)>>, <<D(1, 9)>>, <<{" "}, D(1, 9)>>>>
      [] d = "%H" -> <<<<D(2, 2), D(0, 3)>>, <<D(0, 1), DigitChars>>, <<DigitChars>>>>
      [] d = "%M" -> <<<<D(0, 5), DigitChars>>, <<DigitChars>>>>
      [] d = "%S" -> <<<<D(6, 6), D(0, 1)>>, <<D(0, 5), DigitChars>>, <<DigitChars>>>>
      [] d = "%f" -> [a \in 1..6 |-> [i \in 1..(7 - a) |-> D(0, 9)]]
      [] OTHER -> <<<<{Lower(d), Upper(d)}>>>>
format_regex(format) == [g \in 1..Len(format) |-> Directive(format[g])]

\* datetime.datetime(...) raises ValueError for a day the calendar does not
\* have, the year 0 and the second 60 or 61
Constructed(dt) ==
    LET DaysIn ==
            IF dt.m = 2
            THEN (IF dt.y % 4 = 0 /\ (dt.y % 100 # 0 \/ dt.y % 400 = 0)
                  THEN 29 ELSE 28)
            ELSE IF dt.m \in {4, 6, 9, 11} THEN 30 ELSE 31
    IN  IF dt.y >= 1 /\ dt.d <= DaysIn /\ dt.S <= 59 THEN Return(dt)
        ELSE ValueError

\* datetime.datetime.strptime(value, format); TypeError for a value that is
\* no str, ValueError when the format does not match or when unconverted
\* data remains
strptime(value, format) ==
    LET \* the alternative matches the characters of cs from pos on
        AltMatches(cs, pos, alt) ==
            /\ pos + Len(alt) - 1 <= Len(cs)
            /\ \A i \in 1..Len(alt) : cs[pos + i - 1] \in alt[i]
        \* format_regex.match(data_string): what the groups from g on match
        \* from pos on, the first alternatives that let the rest match being
        \* taken; <<>> when there is no match, or <<m>> with the texts of the
        \* groups and the end
        RECURSIVE MatchFrom(_, _, _, _)
        RECURSIVE TryAlternatives(_, _, _, _, _)
        MatchedWith(text, rest, otherwise) ==
            IF rest = <<>> THEN otherwise
            ELSE <<[found |-> <<text>> \o rest[1].found, end |-> rest[1].end]>>
        TryAlternatives(cs, pos, regex, g, a) ==
            IF a > Len(regex[g]) THEN <<>>
            ELSE IF ~AltMatches(cs, pos, regex[g][a])
            THEN TryAlternatives(cs, pos, regex, g, a + 1)
            ELSE MatchedWith(SubSeq(cs, pos, pos + Len(regex[g][a]) - 1),
                             MatchFrom(cs, pos + Len(regex[g][a]), regex, g + 1),
                             TryAlternatives(cs, pos, regex, g, a + 1))
        MatchFrom(cs, pos, regex, g) ==
            IF g > Len(regex) THEN <<[found |-> <<>>, end |-> pos - 1]>>
            ELSE TryAlternatives(cs, pos, regex, g, 1)
        \* int(found_dict[d]) for a directive of the format, or the default
        Found(found, d, default) ==
            IF \E g \in 1..Len(format) : format[g] = d
            THEN DigitsToNat(SelectSeq(
                     found[CHOOSE g \in 1..Len(format) : format[g] = d], IsDigit))
            ELSE default
        \* the fraction of %f, filled with zeros to six digits
        Microseconds(found) ==
            IF \E g \in 1..Len(format) : format[g] = "%f"
            THEN Found(found, "%f", 0)
                 * Pow10(6 - Len(found[CHOOSE g \in 1..Len(format) : format[g] = "%f"]))
            ELSE 0
        Converted(cs, m) ==
            IF m = <<>> THEN ValueError
            ELSE IF m[1].end # Len(cs) THEN ValueError
            ELSE Constructed(DatetimeV(Found(m[1].found, "%Y", 1900),
                                       Found(m[1].found, "%m", 1),
                                       Found(m[1].found, "%d", 1),
                                       Found(m[1].found, "%H", 0),
                                       Found(m[1].found, "%M", 0),
                                       Found(m[1].found, "%S", 0),
                                       Microseconds(m[1].found)))
    IN  IF value.t # "str" THEN TypeError
        ELSE Converted(value.v, MatchFrom(value.v, 1, format_regex(format), 1))

\* except ValueError: raise self.invalid(value, 'is an invalid date');
\* otherwise .date()
Date_except(self, value, parsed) ==
    IF parsed = ValueError THEN Type_invalid(self, value, "is an invalid date")
    ELSE IF ~parsed.ok THEN parsed
    ELSE Return(DateV(parsed.val.y, parsed.val.m, parsed.val.d))
Date_parse(self, value) ==
    Date_except(self, value, strptime(value, <<"%Y", "-", "%m", "-", "%d">>))

\* Datetime._attempt_parse: except ValueError: return None
Attempt_except(parsed) == IF parsed = ValueError THEN Return(NoneV) ELSE parsed
_attempt_parse(self, value, p) == Attempt_except(strptime(value, p))

\* the patterns of Datetime.parse
patterns ==
    <<<<"%Y", "-", "%m", "-", "%d", "T", "%H", ":", "%M", ":", "%S">>,
      <<"%Y", "-", "%m", "-", "%d", "T", "%H", ":", "%M", ":", "%S", ".", "%f">>,
      <<"%Y", "-", "%m", "-", "%d", "T", "%H", ":", "%M", ":", "%S", ".", "%f", "Z">>>>

\* next(parsed for parsed in ... if parsed is not None), StopIteration
\* caught: the attempts are made one after the other, from the n-th on
RECURSIVE FirstParsed(_, _, _)
Attempted(self, value, n, parsed) ==
    IF ~parsed.ok THEN parsed
    ELSE IF parsed.val # NoneV THEN parsed
    ELSE FirstParsed(self, value, n + 1)
FirstParsed(self, value, n) ==
    IF n > Len(patterns) THEN Type_invalid(self, value, "is an invalid datetime")
    ELSE Attempted(self, value, n, _attempt_parse(self, value, patterns[n]))

Datetime_parse(self, value) == FirstParsed(self, value, 1)

(***************************************************************************)
(* Boolean                                                                 *)
(***************************************************************************)
admissible_true ==
    <<StrV(<<"y", "e", "s">>), StrV(<<"T", "r", "u", "e">>),
      StrV(<<"t", "r", "u", "e">>), StrV(<<"t">>), StrV(<<"1">>), IntV(1)>>
admissible_false ==
    <<StrV(<<"n", "o">>), StrV(<<"F", "a", "l", "s", "e">>),
      StrV(<<"f", "a", "l", "s", "e">>), StrV(<<"f">>), StrV(<<"0">>), IntV(0),
      NoneV>>
\* value in tuple
PyIn(value, tuple) == \E i \in 1..Len(tuple) : PyEq(value, tuple[i])

Boolean_validate(self, value) ==
    IF value.t = "bool" THEN Return(NoneV)
    ELSE IF self.strict THEN Type_invalid(self, value, "is not boolean")
    ELSE IF ~PyIn(value, admissible_true) /\ ~PyIn(value, admissible_false)
    THEN Type_invalid(self, value, "can't be interpreted as boolean")
    ELSE Return(NoneV)

Boolean_parse(self, value) ==
    IF value.t = "bool" THEN Return(value)
    ELSE IF PyIn(value, admissible_false) THEN Return(BoolV(FALSE))
    ELSE Return(BoolV(TRUE))

(***************************************************************************)
(* Constant                                                                *)
(***************************************************************************)
Constant_invalid(self, value, message) ==
    ValidationError(value, message,
                    "Constant(" \o Join(PyRepr(self.constant)) \o ")")

Constant_validate(self, value) ==
    IF ~PyEq(value, self.constant)
    THEN Constant_invalid(self, value,
                          "is not equals to " \o Join(PyRepr(self.constant)))
    ELSE Return(NoneV)

(***************************************************************************)
(* Optional and Any, which call back into the walker                       *)
(***************************************************************************)
RECURSIVE _validate(_, _, _)
RECURSIVE _parse(_, _, _)

Optional_invalid(self, value, message, error) ==
    ValidationError(value, message, "Optional(" \o error \o ")")

\* Optional.validate with an except clause that catches every exception
Optional_validate_catch_all(self, value) ==
    IF value.t = "none" THEN Return(NoneV)
    ELSE LET r == _validate(value, self.othertype, "")
         IN IF IsValidationError(r)
            THEN Optional_invalid(self, r.value, r.message, r.trace)
            ELSE IF ~r.ok
            THEN Optional_invalid(self, value, "is not valid", "")
            ELSE r

\* except ValidationError as e: raise self.invalid(e.value, e.message, e.trace)
Optional_except(self, r) ==
    IF IsValidationError(r)
    THEN Optional_invalid(self, r.value, r.message, r.trace)
    ELSE r

Optional_validate(self, value) ==
    IF value.t = "none" THEN Return(NoneV)
    ELSE Optional_except(self, _validate(value, self.othertype, ""))

Optional_parse(self, value) ==
    IF value.t = "none" THEN Return(NoneV)
    ELSE Optional_except(self, _parse(value, self.othertype, ""))

\* ', '.join(e.trace for e in errors)
RECURSIVE JoinTraces(_)
JoinTraces(errors) ==
    IF errors = <<>> THEN ""
    ELSE IF Len(errors) = 1 THEN errors[1].trace
    ELSE errors[1].trace \o ", " \o JoinTraces(Tail(errors))

Any_invalid(self, value, message, errors) ==
    ValidationError(value, message, "Any(" \o JoinTraces(errors) \o ")")

\* the loop of Any.parse with _parse outside the try block: the first
\* alternative that validates wins, whether it parses or not
RECURSIVE Any_parse_loop_validate_only(_, _, _, _)
Any_parse_loop_validate_only(self, value, i, errors) ==
    IF i > Len(self.types)
    THEN Any_invalid(self, value, "doesn't meet any allowed criterion", errors)
    ELSE LET v == _validate(value, self.types[i], "")
         IN IF IsValidationError(v)
            THEN Any_parse_loop_validate_only(self, value, i + 1, Append(errors, v))
            ELSE IF ~v.ok THEN v
            ELSE _parse(value, self.types[i], "")

\* the loop of Any.parse, from alternative i on, with the errors collected so
\* far; Any_parsed is what follows _validate in its body given the outcome v
\* of _validate, Any_returned what follows _parse given its outcome p
RECURSIVE Any_parse_loop(_, _, _, _)
Any_returned(self, value, i, errors, p) ==
    IF IsValidationError(p)
    THEN Any_parse_loop(self, value, i + 1, Append(errors, p))
    ELSE p
Any_parsed(self, value, i, errors, v) ==
    IF IsValidationError(v)
    THEN Any_parse_loop(self, value, i + 1, Append(errors, v))
    ELSE IF ~v.ok THEN v
    ELSE Any_returned(self, value, i, errors, _parse(value, self.types[i], ""))
Any_parse_loop(self, value, i, errors) ==
    IF i > Len(self.types)
    THEN Any_invalid(self, value, "doesn't meet any allowed criterion", errors)
    ELSE Any_parsed(self, value, i, errors, _validate(value, self.types[i], ""))

Any_parse(self, value) == Any_parse_loop(self, value, 1, <<>>)

(***************************************************************************)
(* Method dispatch and get_parsed_value                                    *)
(***************************************************************************)
Type_validate(self, value) == Return(NoneV)
Type_parse(self, value) == Return(value)

validate(self, value) ==
    CASE self.t = "String" -> String_validate(self, value)
      [] self.t = "Number" -> Number_validate(self, value)
      [] self.t = "Null" -> Null_validate(self, value)
      [] self.t \in {"RegexString", "Date", "Datetime"} ->
            RegexString_validate(self, value)
      [] self.t = "Boolean" -> Boolean_validate(self, value)
      [] self.t = "Optional" -> Optional_validate(self, value)
      [] self.t = "Constant" -> Constant_validate(self, value)
      [] self.t \in {"Type", "Any"} -> Type_validate(self, value)

parse(self, value) ==
    CASE self.t = "String" -> String_parse(self, value)
      [] self.t = "Number" -> Number_parse(self, value)
      [] self.t = "Date" -> Date_parse(self, value)
      [] self.t = "Datetime" -> Datetime_parse(self, value)
      [] self.t = "Boolean" -> Boolean_parse(self, value)
      [] self.t = "Optional" -> Optional_parse(self, value)
      [] self.t = "Any" -> Any_parse(self, value)
      [] self.t \in {"Type", "RegexString", "Null", "Constant"} ->
            Type_parse(self, value)

\* getattr(self, 'condition', None) is not None: only the classes whose
\* __init__ calls Type.__init__ have the attribute
HasCondition(self) ==
    self.t \in {"Type", "String", "RegexString", "Number", "Date", "Datetime"}

\* Type.get_parsed_value with the test of the condition inverted
Type_get_parsed_value_inverted(self, value) ==
    LET parsed == parse(self, value)
    IN IF ~parsed.ok THEN parsed
       ELSE IF HasCondition(self)
       THEN LET passes == condition(self.condition, parsed.val)
            IN IF passes.raised \/ passes.passes
               THEN Type_invalid(self, value, "doesn't meet the validation criterion")
               ELSE parsed
       ELSE parsed

\* what Type.get_parsed_value does with the outcome of self.condition(parsed)
Criterion(self, value, parsed, passes) ==
    IF passes.raised
    THEN Type_invalid(self, value,
             IF passes.args # <<>> THEN passes.args[1]
             ELSE "doesn't meet the validation criterion")
    ELSE IF ~passes.passes
    THEN Type_invalid(self, value, "doesn't meet the validation criterion")
    ELSE parsed
\* what Type.get_parsed_value does with the outcome of self.parse(value)
CheckCondition(self, value, parsed) ==
    IF ~parsed.ok THEN parsed
    ELSE IF HasCondition(self)
    THEN Criterion(self, value, parsed, condition(self.condition, parsed.val))
    ELSE parsed
Type_get_parsed_value(self, value) ==
    CheckCondition(self, value, parse(self, value))

\* Number.get_parsed_value with the bounds enforced inside parse, before the
\* condition is evaluated
Number_get_parsed_value_bounds_first(self, value) ==
    LET parsed == Number_parse(self, value)
    IN IF ~parsed.ok THEN parsed
       ELSE IF self.min # <<>> /\ NumLess(parsed.val, IntV(self.min[1]))
       THEN Type_invalid(self, value,
                "is less than the minimum: " \o ToString(self.min[1]))
       ELSE IF self.max # <<>> /\ NumLess(IntV(self.max[1]), parsed.val)
       THEN Type_invalid(self, value,
                "is greater than the maximum: " \o ToString(self.max[1]))
       ELSE LET passes == condition(self.condition, parsed.val)
            IN IF passes.raised
               THEN Type_invalid(self, value,
                        IF passes.args # <<>> THEN passes.args[1]
                        ELSE "doesn't meet the validation criterion")
               ELSE IF ~passes.passes
               THEN Type_invalid(self, value, "doesn't meet the validation criterion")
               ELSE parsed

\* what Number.get_parsed_value does with the outcome of super().get_parsed_value
CheckBounds(self, value, parsed) ==
    IF ~parsed.ok THEN parsed
    ELSE IF self.min # <<>> /\ NumLess(parsed.val, IntV(self.min[1]))
    THEN Type_invalid(self, value,
             "is less than the minimum: " \o ToString(self.min[1]))
    ELSE IF self.max # <<>> /\ NumLess(IntV(self.max[1]), parsed.val)
    THEN Type_invalid(self, value,
             "is greater than the maximum: " \o ToString(self.max[1]))
    ELSE parsed
Number_get_parsed_value(self, value) ==
    CheckBounds(self, value, Type_get_parsed_value(self, value))

get_parsed_value(self, value) ==
    IF self.t = "Number" THEN Number_get_parsed_value(self, value)
    ELSE Type_get_parsed_value(self, value)

(***************************************************************************)
(* _validate                                                               *)
(***************************************************************************)
\* e.trace = f'{current_trace}{e.trace}'; raise e
Prepend(current_trace, e) ==
    IF IsValidationError(e)
    THEN ValidationError(e.value, e.message, current_trace \o e.trace)
    ELSE e

ObjectSegment(current_trace, k) ==
    current_trace \o "Object(key:" \o Join(PyRepr(StrV(k))) \o ")" \o TRACE_SEP
\* ListSegment that starts the trace afresh
ListSegment_no_prefix(current_trace, i) ==
    "List(index:" \o ToString(i) \o ")" \o TRACE_SEP
ListSegment(current_trace, i) ==
    current_trace \o "List(index:" \o ToString(i) \o ")" \o TRACE_SEP
TupleSegment(current_trace, i) ==
    current_trace \o "Tuple(index:" \o ToString(i) \o ")" \o TRACE_SEP

\* an iteration of a loop and the iterations after it: an exception raised
\* by the iteration ends the loop
Then(r, rest) == IF ~r.ok THEN r ELSE rest

\* MissingKey requiring the Optional keys too
RECURSIVE MissingKey_optional_required(_, _, _)
MissingKey_optional_required(schema, variant, n) ==
    IF n > Len(schema.items) THEN 0
    ELSE IF ~HasKey(variant.items, schema.items[n].k) THEN n
    ELSE MissingKey_optional_required(schema, variant, n + 1)

\* for k in schema: the first key that is missing and not Optional, or 0
RECURSIVE MissingKey(_, _, _)
MissingKey(schema, variant, n) ==
    IF n > Len(schema.items) THEN 0
    ELSE IF ~HasKey(variant.items, schema.items[n].k)
            /\ schema.items[n].v.t # "Optional"
    THEN n
    ELSE MissingKey(schema, variant, n + 1)

\* for k, v in variant.items(): if k in schema: _validate(v, schema[k], ...)
RECURSIVE ValidateItems(_, _, _, _)
ValidateItems(variant, schema, current_trace, n) ==
    IF n > Len(variant.items) THEN Return(NoneV)
    ELSE Then(IF HasKey(schema.items, variant.items[n].k)
              THEN _validate(variant.items[n].v,
                             Lookup(schema.items, variant.items[n].k),
                             ObjectSegment(current_trace, variant.items[n].k))
              ELSE Return(NoneV),
              ValidateItems(variant, schema, current_trace, n + 1))

\* ValidateElements that goes on after a failure and reports the last one
RECURSIVE ValidateElements_last_failure(_, _, _, _)
ValidateElements_last_failure(variant, schema, current_trace, n) ==
    IF n > Len(variant.items) THEN Return(NoneV)
    ELSE LET r == _validate(variant.items[n], schema.items[1],
                            ListSegment(current_trace, n - 1))
             rest == ValidateElements_last_failure(variant, schema, current_trace, n + 1)
         IN IF ~rest.ok THEN rest ELSE r

\* for i, e in enumerate(variant): _validate(e, schema[0], ...)
RECURSIVE ValidateElements(_, _, _, _)
ValidateElements(variant, schema, current_trace, n) ==
    IF n > Len(variant.items) THEN Return(NoneV)
    ELSE Then(_validate(variant.items[n], schema.items[1],
                        ListSegment(current_trace, n - 1)),
              ValidateElements(variant, schema, current_trace, n + 1))

\* for i, subschema in enumerate(schema): _validate(variant[i], subschema, ...)
RECURSIVE ValidateSlots(_, _, _, _)
ValidateSlots(variant, schema, current_trace, n) ==
    IF n > Len(schema.items) THEN Return(NoneV)
    ELSE Then(_validate(variant.items[n], schema.items[n],
                        TupleSegment(current_trace, n - 1)),
              ValidateSlots(variant, schema, current_trace, n + 1))

\* the dict branch
\* raise ValidationError(variant, f'doesn\'t have key "{k}"', ...) for the
\* m-th key of the schema, or the loop over the items when no key is missing
MissingOrItems(variant, schema, current_trace, m) ==
    IF m # 0
    THEN ValidationError(variant,
             "doesn't have key \"" \o Join(schema.items[m].k) \o "\"",
             current_trace \o "Object")
    ELSE ValidateItems(variant, schema, current_trace, 1)
_validate_dict(variant, schema, current_trace) ==
    IF variant.t # "dict"
    THEN ValidationError(variant, "is not an object", current_trace \o "Object")
    ELSE MissingOrItems(variant, schema, current_trace, MissingKey(schema, variant, 1))

\* the list branch
_validate_list(variant, schema, current_trace) ==
    IF Len(schema.items) > 1 THEN TypeError
    ELSE IF variant.t \notin {"list", "tuple"}
    THEN ValidationError(variant, "is not a list or tuple", current_trace \o "List")
    ELSE IF schema.items = <<>> THEN Return(NoneV)
    ELSE ValidateElements(variant, schema, current_trace, 1)

\* the tuple branch validating the slots before it compares the lengths
_validate_tuple_slots_first(variant, schema, current_trace) ==
    IF variant.t \notin {"list", "tuple"}
    THEN ValidationError(variant, "is not a list or tuple", current_trace \o "Tuple")
    ELSE LET short == IF Len(variant.items) < Len(schema.items)
                      THEN [schema EXCEPT !.items = SubSeq(schema.items, 1, Len(variant.items))]
                      ELSE schema
             r == ValidateSlots(variant, short, current_trace, 1)
         IN IF ~r.ok THEN r
            ELSE IF Len(schema.items) # Len(variant.items)
            THEN ValidationError(variant,
                     "has too "
                     \o (IF Len(variant.items) < Len(schema.items) THEN "few" ELSE "many")
                     \o " elements (it requires " \o ToString(Len(schema.items)) \o ")",
                     current_trace \o "Tuple")
            ELSE r

\* the tuple branch
_validate_tuple(variant, schema, current_trace) ==
    IF variant.t \notin {"list", "tuple"}
    THEN ValidationError(variant, "is not a list or tuple", current_trace \o "Tuple")
    ELSE IF Len(schema.items) # Len(variant.items)
    THEN ValidationError(variant,
             "has too "
             \o (IF Len(variant.items) < Len(schema.items) THEN "few" ELSE "many")
             \o " elements (it requires " \o ToString(Len(schema.items)) \o ")",
             current_trace \o "Tuple")
    ELSE ValidateSlots(variant, schema, current_trace, 1)

_validate(variant, schema, current_trace) ==
    IF IsType(schema)
    THEN Prepend(current_trace, validate(schema, variant))
    ELSE IF schema.t = "dict" THEN _validate_dict(variant, schema, current_trace)
    ELSE IF schema.t = "list" THEN _validate_list(variant, schema, current_trace)
    ELSE IF schema.t = "tuple" THEN _validate_tuple(variant, schema, current_trace)
    ELSE TypeError

(***************************************************************************)
(* _parse                                                                  *)
(***************************************************************************)
AttributeError == [ok |-> FALSE, exc |-> "AttributeError"]
IndexError == [ok |-> FALSE, exc |-> "IndexError"]

\* what iterating over the value yields: the elements of a list or tuple,
\* the characters of a str, the keys of a dict
Iterate(variant) ==
    CASE variant.t \in {"list", "tuple"} -> Return(variant.items)
      [] variant.t = "str" ->
            Return([i \in 1..Len(variant.v) |-> StrV(<<variant.v[i]>>)])
      [] variant.t = "dict" ->
            Return([i \in 1..Len(variant.items) |-> StrV(variant.items[i].k)])
      [] OTHER -> TypeError

\* a comprehension: the value of an element and the values of the elements
\* after it; an exception raised for an element ends it
Collect(r, rest) ==
    IF ~r.ok THEN r
    ELSE IF ~rest.ok THEN rest
    ELSE Return(<<r.val>> \o rest.val)
\* k: _parse(...), an item of the dict comprehension
ItemOf(k, r) == IF ~r.ok THEN r ELSE Return(Item(k, r.val))
\* the dict, list or tuple built from the collected values
Built(t, r) == IF ~r.ok THEN r ELSE Return([t |-> t, items |-> r.val])
\* iterating over the value, then the comprehension over what it yields
Iterated(it, r) == IF ~it.ok THEN it ELSE r

\* ParseItems building the output from the keys of the input
RECURSIVE ParseItems_input_keys(_, _, _, _)
ParseItems_input_keys(variant, schema, current_trace, n) ==
    IF n > Len(variant.items) THEN Return(<<>>)
    ELSE LET k == variant.items[n].k
             r == IF HasKey(schema.items, k)
                  THEN _parse(variant.items[n].v, Lookup(schema.items, k),
                              ObjectSegment(current_trace, k))
                  ELSE Return(variant.items[n].v)
         IN Collect(ItemOf(k, r),
                    ParseItems_input_keys(variant, schema, current_trace, n + 1))

\* {k: _parse(variant.get(k), subschema, ...) for k, subschema in schema.items()}
RECURSIVE ParseItems(_, _, _, _)
ParseItems(variant, schema, current_trace, n) ==
    IF n > Len(schema.items) THEN Return(<<>>)
    ELSE Collect(ItemOf(schema.items[n].k,
                        _parse(DictGet(variant.items, schema.items[n].k),
                               schema.items[n].v,
                               ObjectSegment(current_trace, schema.items[n].k))),
                 ParseItems(variant, schema, current_trace, n + 1))

\* [_parse(e, schema[0], ...) for i, e in enumerate(variant)]
RECURSIVE ParseElements(_, _, _, _)
ParseElements(elements, schema, current_trace, n) ==
    IF n > Len(elements) THEN Return(<<>>)
    ELSE Collect(_parse(elements[n], schema.items[1],
                        ListSegment(current_trace, n - 1)),
                 ParseElements(elements, schema, current_trace, n + 1))

\* tuple(_parse(e, schema[i], ...) for i, e in enumerate(variant))
RECURSIVE ParseSlots(_, _, _, _)
ParseSlots(elements, schema, current_trace, n) ==
    IF n > Len(elements) THEN Return(<<>>)
    ELSE IF n > Len(schema.items) THEN IndexError
    ELSE Collect(_parse(elements[n], schema.items[n],
                        TupleSegment(current_trace, n - 1)),
                 ParseSlots(elements, schema, current_trace, n + 1))

\* the dict branch: variant.get raises AttributeError for a value that is no
\* dict, when the schema has a key to look up
_parse_dict(variant, schema, current_trace) ==
    IF schema.items # <<>> /\ variant.t # "dict" THEN AttributeError
    ELSE Built("dict", ParseItems(variant, schema, current_trace, 1))

\* the list branch passing the elements through when the schema is empty
_parse_list_passthrough(variant, schema, current_trace) ==
    LET it == Iterate(variant)
    IN IF ~it.ok THEN it
       ELSE IF schema.items = <<>> THEN Return(ListV(it.val))
       ELSE Built("list", ParseElements(it.val, schema, current_trace, 1))

\* the list branch
_parse_list(variant, schema, current_trace) ==
    IF schema.items = <<>> THEN Return(ListV(<<>>))
    ELSE Iterated(Iterate(variant),
                  Built("list", ParseElements(Iterate(variant).val, schema,
                                              current_trace, 1)))

\* the tuple branch
_parse_tuple(variant, schema, current_trace) ==
    Iterated(Iterate(variant),
             Built("tuple", ParseSlots(Iterate(variant).val, schema,
                                       current_trace, 1)))

_parse(variant, schema, current_trace) ==
    IF IsType(schema)
    THEN Prepend(current_trace, get_parsed_value(schema, variant))
    ELSE IF schema.t = "dict" THEN _parse_dict(variant, schema, current_trace)
    ELSE IF schema.t = "list" THEN _parse_list(variant, schema, current_trace)
    ELSE IF schema.t = "tuple" THEN _parse_tuple(variant, schema, current_trace)
    ELSE TypeError

(***************************************************************************)
(* The inputs the model draws: values and schemas                          *)
(***************************************************************************)
\* the longest list, tuple or Any the families below build from their elements
MaxLen == 2
\* the largest int among the inputs
MaxInt == 2

SeqsUpTo(S, n) == UNION {[1..k -> S] : k \in 0..n}
\* the sequences of distinct keys
KeySeqs(K, n) == {ks \in SeqsUpTo(K, n) :
                    \A i, j \in 1..Len(ks) : i # j => ks[i] # ks[j]}
\* the dict items with the given keys, in that order, and values from S
ItemSeqs(ks, S) ==
    {[i \in 1..Len(ks) |-> Item(ks[i], vs[i])] : vs \in [1..Len(ks) -> S]}

Keys == {<<"a">>, <<"b">>}
ExtraKeys == Keys \cup {<<"c">>}

\* <U+0663> is the Arabic-Indic digit three, <U+200E> the left-to-right mark,
\* which is not printable
StrInputs ==
    {StrV(<<"a">>), StrV(<<"1">>), StrV(<<"2", ".", "0">>),
     StrV(<<"1", ".">>), StrV(<<"f">>), StrV(<<"1", "\n">>),
     StrV(<<"<U+0663>">>), StrV(<<"i", "t", "'", "s">>)}
ScalarInputs ==
    {NoneV, BoolV(TRUE), BoolV(FALSE), FloatV(15, 1), FloatV(1, 0),
     FloatV(1, 5), Special("inf")}
    \cup {IntV(n) : n \in -1..MaxInt} \cup StrInputs
DateInputs ==
    {StrV(<<"2", "0", "0", "0", "-", "0", "1", "-", "0", "1", "\n">>),
     StrV(<<"<U+0662>", "0", "0", "0", "-", "0", "1", "-", "0", "1">>),
     StrV(<<"2", "0", "0", "0", "-", "0", "1", "-", "0", "<U+0661>">>),
     StrV(<<"2", "0", "0", "0", "-", "0", "1", "-", "0", "1">>),
     StrV(<<"2", "0", "0", "0", "-", "0", "2", "-", "3", "0">>),
     StrV(<<"1", "9", "0", "0", "-", "0", "2", "-", "2", "9">>),
     StrV(<<"2", "0", "1", "8", "-", "0", "1", "-", "0", "2", "T", "1", "0", ":", "1", "0", ":", "1", "0">>),
     StrV(<<"2", "0", "0", "0", "-", "0", "1", "-", "0", "2", "T", "1", "0", ":", "1", "0", ":", "1", "0", ".", "1", "2", "3", "Z">>),
     StrV(<<"2", "0", "0", "0", "-", "0", "1", "-", "0", "2", "T", "1", "0", ":", "1", "0", ":", "1", "0", "Z">>),
     StrV(<<"2", "0", "0", "0", "-", "0", "1", "-", "0", "2", "T", "1", "0", ":", "1", "0", ":", "1", "0", ".">>),
     StrV(<<"2", "0", "0", "0", "-", "0", "1", "-", "0", "2", "T", "2", "4", ":", "1", "0", ":", "1", "0">>)}
ElementInputs == {NoneV, IntV(-1), IntV(1), StrV(<<"a">>), StrV(<<"1">>)}
ItemInputs == {NoneV, IntV(-1), StrV(<<"a">>), StrV(<<"1">>)}

ListInputs == {ListV(es) : es \in SeqsUpTo(ElementInputs, MaxLen)}
TupleInputs == {TupleV(es) : es \in SeqsUpTo(ItemInputs, MaxLen)}
DictInputs ==
    UNION {{DictV(items) : items \in ItemSeqs(ks, ItemInputs)} :
             ks \in KeySeqs(ExtraKeys, 2)}
FlatInputs ==
    ScalarInputs \cup ListInputs \cup TupleInputs \cup DictInputs \cup DateInputs
    \cup {DictV(<<Item(<<"a">>, d)>>) : d \in DateInputs}
    \cup {ListV(<<d, IntV(1)>>) : d \in DateInputs}
    \cup {DictV(<<Item(<<"i", "t", "'", "s">>, IntV(-1))>>),
          DictV(<<Item(<<"\\">>, IntV(-1))>>), ListV(<<FloatV(1, 0)>>),
          DictV(<<Item(<<"<U+200E>">>, IntV(-1))>>), StrV(<<"<U+200E>">>),
          FloatV(15, 324)}

\* the values nested one level deeper
InnerInputs ==
    {ListV(<<>>), ListV(<<IntV(-1)>>), ListV(<<StrV(<<"a">>)>>),
     ListV(<<StrV(<<"1">>), IntV(-1)>>), ListV(<<IntV(1), StrV(<<"a">>)>>),
     TupleV(<<StrV(<<"a">>)>>),
     DictV(<<>>), DictV(<<Item(<<"a">>, IntV(-1))>>),
     DictV(<<Item(<<"a">>, StrV(<<"a">>))>>),
     DictV(<<Item(<<"b">>, StrV(<<"1">>)), Item(<<"a">>, NoneV)>>)}
Nest(x) ==
    {ListV(<<x>>), ListV(<<x, IntV(-1)>>), ListV(<<StrV(<<"a">>), x>>),
     DictV(<<Item(<<"a">>, x)>>),
     DictV(<<Item(<<"b">>, IntV(-1)), Item(<<"a">>, x)>>)}
NestedInputs == UNION {Nest(x) : x \in InnerInputs}
DeepInputs ==
    UNION {{ListV(<<x>>), DictV(<<Item(<<"a">>, x)>>)} :
             x \in UNION {Nest(y) : y \in {ListV(<<IntV(-1)>>),
                                           ListV(<<IntV(1), IntV(-1)>>),
                                           DictV(<<Item(<<"a">>, StrV(<<"a">>))>>)}}}

Inputs == FlatInputs \cup NestedInputs \cup DeepInputs

Conditions == {"None", "lt2", "failpos", "barepos"}
NumberSchemas ==
    {Number(min, max, strict, c) :
        min \in {<<>>, <<0>>, <<1>>}, max \in {<<>>, <<1>>},
        strict \in BOOLEAN, c \in Conditions}
PlainString == String(TRUE, "None")
PlainNumber == Number(<<>>, <<>>, FALSE, "None")
MinNumber == Number(<<0>>, <<>>, FALSE, "None")
ScalarSchemas ==
    NumberSchemas
    \cup {PlainString, String(FALSE, "None"), Null, Boolean(TRUE), Boolean(FALSE),
          Date("None"), Datetime("None"), Datetime("after2017"),
          Type("None"), Type("lt2"), RegexString(<<Number_pattern>>, "None"),
          Constant(StrV(<<"a">>)), Constant(IntV(1)),
          Constant(StrV(<<"i", "t", "'", "s">>)), Constant(FloatV(1, 5)),
          Constant(ListV(<<IntV(1)>>)), Constant(StrV(<<"<U+200E>">>))}

Leaves == {PlainString, PlainNumber, MinNumber, Null}
OptionalSchemas == {Optional(l) : l \in Leaves}
AnySchemas ==
    {AnyOf(ts) : ts \in SeqsUpTo(Leaves \cup {Constant(StrV(<<"a">>))}, MaxLen) \ {<<>>}}
ListSchemas == {ListV(<<>>)} \cup {ListV(<<l>>) : l \in Leaves}
\* a list schema of more than one element is malformed
LongListSchemas == {ListV(ls) : ls \in [1..2 -> {PlainString, Null}]}
TupleSchemas ==
    {TupleV(ts) : ts \in SeqsUpTo({PlainString, MinNumber, Null}, MaxLen)}
FieldSchemas ==
    {PlainString, PlainNumber, MinNumber, Optional(PlainString), Optional(MinNumber)}
DictSchemas ==
    UNION {{DictV(items) : items \in ItemSeqs(ks, FieldSchemas)} :
             ks \in KeySeqs(Keys, 2)}
FlatSchemas ==
    ScalarSchemas \cup OptionalSchemas \cup AnySchemas \cup ListSchemas
    \cup LongListSchemas \cup TupleSchemas \cup DictSchemas \cup {NotASchema}
    \cup {DictV(<<Item(<<"i", "t", "'", "s">>, MinNumber)>>),
          DictV(<<Item(<<"\\">>, MinNumber)>>),
          DictV(<<Item(<<"<U+200E>">>, MinNumber)>>)}

\* the schemas nested one level deeper
InnerSchemas ==
    {ListV(<<>>), ListV(<<MinNumber>>), ListV(<<PlainString>>),
     ListV(<<PlainString, PlainString>>), NotASchema,
     TupleV(<<PlainString, MinNumber>>),
     DictV(<<Item(<<"a">>, MinNumber)>>),
     DictV(<<Item(<<"a">>, PlainString), Item(<<"b">>, Optional(MinNumber))>>),
     Optional(PlainString), Optional(ListV(<<MinNumber>>)),
     AnyOf(<<MinNumber, PlainString>>), AnyOf(<<ListV(<<Null>>), PlainNumber>>),
     Date("None"), Datetime("after2017")}
\* Optional and Any assert that their arguments are Types or aggregates
Wrappable(x) == IsTypeOrAggregate(x)
NestSchema(x) ==
    {ListV(<<x>>), TupleV(<<x>>), TupleV(<<PlainString, x>>),
     DictV(<<Item(<<"a">>, x)>>),
     DictV(<<Item(<<"a">>, PlainString), Item(<<"b">>, x)>>),
     DictV(<<Item(<<"b">>, x), Item(<<"a">>, MinNumber)>>)}
    \cup (IF Wrappable(x)
          THEN {Optional(x), AnyOf(<<x>>), AnyOf(<<PlainString, x>>),
                AnyOf(<<x, PlainString>>)}
          ELSE {})
NestedSchemas == UNION {NestSchema(x) : x \in InnerSchemas}
DeepSchemas ==
    UNION {{ListV(<<x>>), DictV(<<Item(<<"a">>, x)>>), Optional(x)} :
             x \in UNION {NestSchema(y) :
                            y \in {ListV(<<MinNumber>>),
                                   DictV(<<Item(<<"a">>, MinNumber)>>),
                                   ListV(<<PlainString, PlainString>>)}}}

Schemas == FlatSchemas \cup NestedSchemas \cup DeepSchemas

(***************************************************************************)
(* The cleaner returned by clean(schema), one step per statement           *)
(***************************************************************************)
VARIABLES schema, variant, pc, verdict, result
vars == <<schema, variant, pc, verdict, result>>

Pending == [ok |-> FALSE, exc |-> "pending"]

\* clean(schema) has returned the cleaner
Init ==
    /\ schema \in Schemas
    /\ variant = NoneV
    /\ pc = "cleaner"
    /\ verdict = Pending
    /\ result = Pending

\* cleaner(variant) is called
Call ==
    /\ pc = "cleaner"
    /\ variant' \in Inputs
    /\ pc' = "validate"
    /\ UNCHANGED <<schema, verdict, result>>

\* _validate(variant, schema)
Validate ==
    /\ pc = "validate"
    /\ verdict' = _validate(variant, schema, "")
    /\ IF verdict'.ok
       THEN pc' = "parse" /\ result' = result
       ELSE pc' = "raised" /\ result' = verdict'
    /\ UNCHANGED <<schema, variant>>

\* return _parse(variant, schema)
Parse ==
    /\ pc = "parse"
    /\ result' = _parse(variant, schema, "")
    /\ pc' = IF result'.ok THEN "returned" ELSE "raised"
    /\ UNCHANGED <<schema, variant, verdict>>

Next == Call \/ Validate \/ Parse

Spec == Init /\ [][Next]_vars


(***************************************************************************)
(* Properties of the cleaner                                               *)
(***************************************************************************)
\* the call has ended
Done == pc \in {"returned", "raised"}
\* the validate pass has ended
Validated == pc \in {"parse", "returned", "raised"}
IsSequence(v) == v.t \in {"list", "tuple"}

\* no node of the schema is malformed
RECURSIVE WellFormed(_)
WellFormed(s) ==
    CASE s.t = "Optional" -> WellFormed(s.othertype)
      [] s.t = "Any" -> \A i \in 1..Len(s.types) : WellFormed(s.types[i])
      [] s.t = "dict" -> \A i \in 1..Len(s.items) : WellFormed(s.items[i].v)
      [] s.t = "list" ->
            Len(s.items) <= 1 /\ \A i \in 1..Len(s.items) : WellFormed(s.items[i])
      [] s.t = "tuple" -> \A i \in 1..Len(s.items) : WellFormed(s.items[i])
      [] s.t = "object" -> FALSE
      [] OTHER -> TRUE

\* some node of the schema checks its value during the parse pass only: a
\* Number with a bound, a condition predicate, a Date or Datetime, an Any
RECURSIVE HasParseCheck(_)
HasParseCheck(s) ==
    CASE s.t = "Number" -> s.min # <<>> \/ s.max # <<>> \/ s.condition # "None"
      [] s.t \in {"Type", "String", "RegexString"} -> s.condition # "None"
      [] s.t \in {"Date", "Datetime", "Any"} -> TRUE
      [] s.t = "Optional" -> HasParseCheck(s.othertype)
      [] s.t = "dict" -> \E i \in 1..Len(s.items) : HasParseCheck(s.items[i].v)
      [] s.t \in {"list", "tuple"} -> \E i \in 1..Len(s.items) : HasParseCheck(s.items[i])
      [] OTHER -> FALSE

\* C1, as stated: for a well-formed schema, an input that passes the validate
\* pass also passes the parse pass, so the cleaner raises nothing.
C1_ValidatedInputParses ==
    (WellFormed(schema) /\ Done /\ verdict.ok) => result.ok

\* C1, amended: for a well-formed schema, an input that passes the validate
\* pass makes the parse pass raise a ValidationError only when the schema has
\* a node that checks during the parse pass (a Number bound, a condition, a
\* Date or Datetime, an Any).
C1_ParseRaisesOnlyAtParseChecks ==
    (WellFormed(schema) /\ Done /\ verdict.ok /\ IsValidationError(result))
        => HasParseCheck(schema)

\* a validated dict was parsed by a schema without parse-pass checks, and a
\* value was coerced on the way
C1_Witness ==
    /\ WellFormed(schema) /\ ~HasParseCheck(schema) /\ schema.t = "dict"
    /\ pc = "returned" /\ verdict.ok
    /\ \E i \in 1..Len(schema.items) :
          /\ schema.items[i].v.t = "Number"
          /\ HasKey(variant.items, schema.items[i].k)
          /\ Lookup(variant.items, schema.items[i].k).t = "str"

\* the output mirrors the container shape of the schema, at every level
RECURSIVE Mirrors(_, _, _)
Mirrors(s, v, out) ==
    CASE s.t = "dict" ->
            /\ v.t = "dict" /\ out.t = "dict"
            /\ Len(out.items) = Len(s.items)
            /\ \A i \in 1..Len(s.items) :
                  LET k == s.items[i].k
                  IN /\ out.items[i].k = k
                     /\ IF HasKey(v.items, k)
                        THEN Mirrors(s.items[i].v, Lookup(v.items, k), out.items[i].v)
                        ELSE s.items[i].v.t = "Optional" /\ out.items[i].v = NoneV
      [] s.t = "list" /\ Len(s.items) = 1 ->
            /\ IsSequence(v) /\ out.t = "list"
            /\ Len(out.items) = Len(v.items)
            /\ \A i \in 1..Len(v.items) :
                  /\ Mirrors(s.items[1], v.items[i], out.items[i])
                  /\ _parse(v.items[i], s.items[1], "") = Return(out.items[i])
      [] s.t = "list" /\ Len(s.items) # 1 -> out.t = "list"
      [] s.t = "tuple" ->
            /\ IsSequence(v) /\ out.t = "tuple"
            /\ Len(out.items) = Len(s.items)
            /\ Len(v.items) = Len(s.items)
            /\ \A i \in 1..Len(s.items) :
                  Mirrors(s.items[i], v.items[i], out.items[i])
      [] s.t = "Optional" ->
            IF v.t = "none" THEN out = NoneV ELSE Mirrors(s.othertype, v, out)
      [] s.t = "Any" -> \E i \in 1..Len(s.types) : Mirrors(s.types[i], v, out)
      [] s.t = "String" -> out.t = "str"
      [] s.t = "Number" -> out.t \in {"int", "float"}
      [] s.t = "Boolean" -> out.t = "bool"
      [] s.t = "Date" -> out.t = "date"
      [] s.t = "Datetime" -> out.t = "datetime"
      [] s.t = "Null" -> out = NoneV
      [] s.t \in {"Type", "RegexString", "Constant"} -> out = v
      [] OTHER -> FALSE

\* C2: a value returned by the cleaner mirrors the schema's container shape at
\* every level: a dict with exactly the schema's keys (input-only keys dropped,
\* an absent Optional key present with None), a list with one parsed element
\* per input element in order, a tuple as long as the schema tuple.
C2_OutputMirrorsSchema ==
    pc = "returned" => Mirrors(schema, variant, result.val)

\* a dict was returned for an input with a key the schema does not have and
\* without a key the schema has, and a list was parsed inside it
C2_Witness ==
    /\ pc = "returned" /\ schema.t = "dict" /\ Len(schema.items) = 2
    /\ \E i \in 1..Len(variant.items) : ~HasKey(schema.items, variant.items[i].k)
    /\ \E i \in 1..Len(schema.items) : ~HasKey(variant.items, schema.items[i].k)
    /\ \E i \in 1..Len(result.val.items) : result.val.items[i].v.t # "none"

\* C3: validation against a dict schema succeeds iff the value is a dict, every
\* key whose schema is not an Optional is present, and every key present in
\* both validates; input-only keys never fail; a missing required key fails
\* with the message: doesn't have key "<key>".
C3_MappingValidation ==
    (schema.t = "dict" /\ Validated) =>
        LET isDict == variant.t = "dict"
            Required(i) == schema.items[i].v.t # "Optional"
            Present(i) == HasKey(variant.items, schema.items[i].k)
            allRequired == \A i \in 1..Len(schema.items) : Required(i) => Present(i)
            allValid ==
                \A i \in 1..Len(schema.items) :
                    Present(i) =>
                        _validate(Lookup(variant.items, schema.items[i].k),
                                  schema.items[i].v, "").ok
        IN /\ verdict.ok <=> (isDict /\ allRequired /\ allValid)
           /\ (isDict /\ ~allRequired) =>
                 /\ IsValidationError(verdict)
                 /\ \E i \in 1..Len(schema.items) :
                       /\ Required(i) /\ ~Present(i)
                       /\ verdict.message
                            = "doesn't have key \"" \o Join(schema.items[i].k) \o "\""

\* a dict with an input-only key and without an Optional key passed validation
C3_Witness ==
    /\ schema.t = "dict" /\ Validated /\ verdict.ok
    /\ \E i \in 1..Len(variant.items) : ~HasKey(schema.items, variant.items[i].k)
    /\ \E i \in 1..Len(schema.items) : ~HasKey(variant.items, schema.items[i].k)

\* what alternative i of an Any does on its own: validate, then parse
Alternative(self, value, i) ==
    LET v == _validate(value, self.types[i], "")
    IN IF v.ok THEN _parse(value, self.types[i], "") ELSE v

\* the strings, of which there is at least one, joined by ', '
RECURSIVE CommaJoined(_)
CommaJoined(strings) ==
    IF Len(strings) = 1 THEN strings[1]
    ELSE CommaJoined(SubSeq(strings, 1, Len(strings) - 1))
         \o ", " \o strings[Len(strings)]

\* C4: Any(t1..tn) returns the coerced value of the lowest-indexed alternative
\* that both validates and parses, trying no later alternative; when every
\* alternative fails it raises one ValidationError, doesn't meet any allowed
\* criterion, whose trace is Any(<the n traces in order, joined by ', '>).
C4_AnyFirstMatch ==
    (schema.t = "Any" /\ Done) =>
        LET n == Len(schema.types)
            Alt(i) == Alternative(schema, variant, i)
            FailedBefore(i) == \A j \in 1..(i - 1) : IsValidationError(Alt(j))
            traces == [j \in 1..n |-> Alt(j).trace]
        IN /\ verdict.ok
           /\ \A i \in 1..n : (Alt(i).ok /\ FailedBefore(i)) => result = Alt(i)
           /\ FailedBefore(n + 1) =>
                 /\ IsValidationError(result)
                 /\ result.value = variant
                 /\ result.message = "doesn't meet any allowed criterion"
                 /\ result.trace = "Any(" \o CommaJoined(traces) \o ")"

\* the second alternative of an Any won after the first had validated the
\* value and then failed to parse it
C4_Witness ==
    /\ schema.t = "Any" /\ pc = "returned" /\ Len(schema.types) >= 2
    /\ _validate(variant, schema.types[1], "").ok
    /\ IsValidationError(_parse(variant, schema.types[1], ""))
    /\ result = Alternative(schema, variant, 2)

\* C8: validation against a tuple schema of length n succeeds only for a list
\* or tuple of exactly n elements each of which validates against its slot;
\* fewer elements fail with: has too few elements (it requires n), more with:
\* has too many elements (it requires n), both with the trace Tuple, and the
\* lengths are compared before any element is validated.
C8_TupleArity ==
    (schema.t = "tuple" /\ Validated) =>
        LET n == Len(schema.items)
        IN /\ verdict.ok =>
                 /\ IsSequence(variant) /\ Len(variant.items) = n
                 /\ \A i \in 1..n :
                       _validate(variant.items[i], schema.items[i], "").ok
           /\ (IsSequence(variant) /\ Len(variant.items) < n) =>
                 verdict = ValidationError(variant,
                               "has too few elements (it requires " \o ToString(n) \o ")",
                               "Tuple")
           /\ (IsSequence(variant) /\ Len(variant.items) > n) =>
                 verdict = ValidationError(variant,
                               "has too many elements (it requires " \o ToString(n) \o ")",
                               "Tuple")

\* an input with too many elements, the first of which does not validate
\* against the first slot, failed on its length
C8_Witness ==
    /\ schema.t = "tuple" /\ Validated /\ IsSequence(variant)
    /\ Len(schema.items) >= 1 /\ Len(variant.items) > Len(schema.items)
    /\ ~_validate(variant.items[1], schema.items[1], "").ok
    /\ IsValidationError(verdict) /\ verdict.trace = "Tuple"

\* the parsed number, the bounds and the condition of a Number at the root
BelowMin(self, parsed) == self.min # <<>> /\ NumLess(parsed, IntV(self.min[1]))
AboveMax(self, parsed) == self.max # <<>> /\ NumLess(IntV(self.max[1]), parsed)
ConditionFails(self, parsed) ==
    LET c == condition(self.condition, parsed) IN c.raised \/ ~c.passes
ConditionMessage(self, parsed) ==
    LET c == condition(self.condition, parsed)
    IN IF c.raised /\ c.args # <<>> THEN c.args[1]
       ELSE "doesn't meet the validation criterion"
MinMessage(self) == "is less than the minimum: " \o ToString(self.min[1])
MaxMessage(self) == "is greater than the maximum: " \o ToString(self.max[1])

\* C9, as stated: the bounds of a Number are enforced before the condition is
\* evaluated, so a value that violates a bound and the condition fails with
\* the message of the bound.
C9_BoundsBeforeCondition ==
    (schema.t = "Number" /\ Done /\ verdict.ok) =>
        LET parsed == Number_parse(schema, variant).val
        IN ((BelowMin(schema, parsed) \/ AboveMax(schema, parsed))
            /\ ConditionFails(schema, parsed)) =>
                /\ IsValidationError(result)
                /\ result.message = IF BelowMin(schema, parsed)
                                    THEN MinMessage(schema) ELSE MaxMessage(schema)

\* C9, amended: the condition of a Number is evaluated first, on every parsed
\* value, also one outside the bounds; the bounds are enforced afterwards, so
\* a value that violates a bound and the condition fails with the message of
\* the condition, and a bound message is only given for a value that passes
\* the condition.
C9_ConditionBeforeBounds ==
    (schema.t = "Number" /\ Done /\ verdict.ok) =>
        LET parsed == Number_parse(schema, variant).val
        IN result =
             IF ConditionFails(schema, parsed)
             THEN ValidationError(variant, ConditionMessage(schema, parsed), "Number")
             ELSE IF BelowMin(schema, parsed)
             THEN ValidationError(variant, MinMessage(schema), "Number")
             ELSE IF AboveMax(schema, parsed)
             THEN ValidationError(variant, MaxMessage(schema), "Number")
             ELSE Return(parsed)

\* a value above the maximum whose condition raises failed with the message
\* of the condition
C9_Witness ==
    /\ schema.t = "Number" /\ pc = "raised" /\ verdict.ok
    /\ AboveMax(schema, Number_parse(schema, variant).val)
    /\ result.message = "must not be positive"

\* C10: against the empty list schema, validation succeeds for every list or
\* tuple, whatever its elements, and fails with: is not a list or tuple, for
\* every other value; parsing then returns the empty list, whatever the input
\* holds.
C10_EmptyListSchema ==
    (schema = ListV(<<>>) /\ Done) =>
        result = IF IsSequence(variant) THEN Return(ListV(<<>>))
                 ELSE ValidationError(variant, "is not a list or tuple", "List")

\* a list of two elements was cleaned to the empty list
C10_Witness ==
    /\ schema = ListV(<<>>) /\ pc = "returned"
    /\ variant.t = "list" /\ Len(variant.items) = 2
    /\ result.val = ListV(<<>>)

\* the node itself is malformed
Malformed(s) == s.t = "object" \/ (s.t = "list" /\ Len(s.items) > 1)

\* C7, as stated: the cleaner of a schema that holds a malformed node fails
\* with TypeError on every input, and never returns or raises ValidationError.
C7_MalformedAlwaysTypeError ==
    (~WellFormed(schema) /\ Done) => result = TypeError

\* C7, amended: a malformed node raises TypeError when the walk reaches it,
\* whatever the value there is: a malformed root fails every input with
\* TypeError, an enclosing Optional (given a value other than None) or Any
\* (whose first alternative it is) lets the TypeError through unchanged, and
\* the cleaner raises nothing but ValidationError and TypeError, the latter
\* for malformed schemas only.  Inputs on which the walk never reaches the
\* malformed node get a value or a ValidationError.
C7_TypeErrorWhenReached ==
    Done =>
        /\ Malformed(schema) => result = TypeError
        /\ (schema.t = "Optional" /\ Malformed(schema.othertype)
            /\ variant.t # "none") => result = TypeError
        /\ (schema.t = "Any" /\ Malformed(schema.types[1])) => result = TypeError
        /\ (~result.ok /\ ~IsValidationError(result)) =>
              (result = TypeError /\ ~WellFormed(schema))

\* an Optional around a malformed list let the TypeError through
C7_Witness ==
    /\ schema.t = "Optional" /\ Malformed(schema.othertype)
    /\ variant.t # "none" /\ pc = "raised" /\ result = TypeError

(***************************************************************************)
(* Positions.  A path is the sequence of steps from the root of the schema *)
(* to a node: under a key of a dict, to an element of a list, to a slot of *)
(* a tuple, or into an Optional.                                           *)
(***************************************************************************)
KeyStep(k) == [s |-> "key", k |-> k]
ListStep(i) == [s |-> "list", i |-> i]
TupleStep(i) == [s |-> "tuple", i |-> i]
OptionalStep == [s |-> "optional"]
MinOf(a, b) == IF a < b THEN a ELSE b

\* the paths a pass can walk in schema s with value v: the validate pass goes
\* under the keys the value has, the parse pass under every key of the schema
RECURSIVE Paths(_, _, _)
Paths(s, v, pass) ==
    {<<>>} \cup
    CASE s.t = "dict" /\ v.t = "dict" ->
            UNION {{<<KeyStep(s.items[i].k)>> \o p :
                      p \in Paths(s.items[i].v, DictGet(v.items, s.items[i].k), pass)} :
                   i \in {j \in 1..Len(s.items) :
                            pass = "parse" \/ HasKey(v.items, s.items[j].k)}}
      [] s.t = "list" /\ Len(s.items) = 1 /\ IsSequence(v) ->
            UNION {{<<ListStep(i - 1)>> \o p : p \in Paths(s.items[1], v.items[i], pass)} :
                   i \in 1..Len(v.items)}
      [] s.t = "tuple" /\ IsSequence(v) ->
            UNION {{<<TupleStep(i - 1)>> \o p : p \in Paths(s.items[i], v.items[i], pass)} :
                   i \in 1..MinOf(Len(s.items), Len(v.items))}
      [] s.t = "Optional" /\ v.t # "none" ->
            {<<OptionalStep>> \o p : p \in Paths(s.othertype, v, pass)}
      [] OTHER -> {}

\* the schema node and the value at the end of a path
RECURSIVE At(_, _, _)
At(s, v, p) ==
    IF p = <<>> THEN [node |-> s, value |-> v]
    ELSE LET h == Head(p)
         IN CASE h.s = "key" ->
                    At(Lookup(s.items, h.k), DictGet(v.items, h.k), Tail(p))
              [] h.s = "list" -> At(s.items[1], v.items[h.i + 1], Tail(p))
              [] h.s = "tuple" -> At(s.items[h.i + 1], v.items[h.i + 1], Tail(p))
              [] h.s = "optional" -> At(s.othertype, v, Tail(p))

\* the trace that names a path: its segments, outermost first, then the name
\* of the node at its end
RECURSIVE Render(_, _)
Render(p, name) ==
    IF p = <<>> THEN name
    ELSE LET h == Head(p)
             rest == Render(Tail(p), name)
         IN CASE h.s = "key" ->
                    "Object(key:" \o Join(PyRepr(StrV(h.k))) \o ") --> " \o rest
              [] h.s = "list" -> "List(index:" \o ToString(h.i) \o ") --> " \o rest
              [] h.s = "tuple" -> "Tuple(index:" \o ToString(h.i) \o ") --> " \o rest
              [] h.s = "optional" -> "Optional(" \o rest \o ")"

\* the name a failing node gives itself
OwnName(node) ==
    CASE node.t \in {"Type", "String", "RegexString", "Number", "Null", "Boolean",
                     "Date", "Datetime"} -> node.t
      [] node.t = "Constant" -> "Constant(" \o Join(PyRepr(node.constant)) \o ")"
      [] node.t = "dict" -> "Object"
      [] node.t = "list" -> "List"
      [] node.t = "tuple" -> "Tuple"

\* what a pass does with the node at the end of a path, taken on its own
Outcome(p, pass) ==
    LET at == At(schema, variant, p)
    IN IF pass = "validate" THEN _validate(at.value, at.node, "")
       ELSE _parse(at.value, at.node, "")

\* the node at the end of the path fails, itself and not a node below it: an
\* Any fails as a whole, an Optional never fails itself, any other node fails
\* itself when the trace of its failure is its bare name
FailsItself(p, pass) ==
    LET at == At(schema, variant, p)
        e == Outcome(p, pass)
    IN /\ IsValidationError(e)
       /\ at.node.t # "Optional"
       /\ at.node.t # "Any" => e.trace = OwnName(at.node)

\* C5: the trace of every ValidationError of the cleaner, raised by the
\* validate pass or by the parse pass, is the path from the root of the schema
\* to the failing node: one segment per container traversed, outermost first,
\* joined by ' --> ', the part below an Optional wrapped in Optional(...), and
\* the failing node's own name at the end.
C5_TraceIsPathToFailingNode ==
    (Done /\ IsValidationError(result)) =>
        LET pass == IF verdict.ok THEN "parse" ELSE "validate"
        IN \E p \in Paths(schema, variant, pass) :
              /\ FailsItself(p, pass)
              /\ LET e == Outcome(p, pass)
                 IN result = ValidationError(e.value, e.message, Render(p, e.trace))

\* the parse pass failed at an element of a list inside an Optional under a key
C5_Witness ==
    /\ pc = "raised" /\ verdict.ok /\ IsValidationError(result)
    /\ result.trace = "Object(key:'a') --> Optional(List(index:0) --> Number)"

(***************************************************************************)
(* The order of the validate pass                                          *)
(***************************************************************************)
KeyIndex(items, k) == CHOOSE i \in 1..Len(items) : items[i].k = k
IsPrefix(p, q) == Len(p) < Len(q) /\ SubSeq(q, 1, Len(p)) = p
\* where two paths, neither a prefix of the other, part
FirstDifference(p, q) ==
    CHOOSE j \in 1..MinOf(Len(p), Len(q)) :
        p[j] # q[j] /\ SubSeq(p, 1, j - 1) = SubSeq(q, 1, j - 1)

\* depth-first order: a node comes before the nodes below it, and the nodes
\* below it come in the order of its children
Before(p, q, ChildBefore(_, _, _)) ==
    /\ p # q
    /\ ~IsPrefix(q, p)
    /\ \/ IsPrefix(p, q)
       \/ LET j == FirstDifference(p, q)
          IN ChildBefore(SubSeq(p, 1, j - 1), p[j], q[j])

\* a required key of the schema dict at path c that the value does not have
MissingStep(k) == [s |-> "missing", k |-> k]
MissingKeys(c) ==
    LET at == At(schema, variant, c)
    IN IF at.node.t = "dict" /\ at.value.t = "dict"
       THEN {at.node.items[i].k : i \in {j \in 1..Len(at.node.items) :
                  /\ at.node.items[j].v.t # "Optional"
                  /\ ~HasKey(at.value.items, at.node.items[j].k)}}
       ELSE {}
MissingKeyError(c, k) ==
    ValidationError(At(schema, variant, c).value,
                    "doesn't have key \"" \o Join(k) \o "\"",
                    Render(c, "Object"))

\* the positions at which the validate pass has something to report: a node
\* that fails itself, or a malformed node
ValidatePaths == Paths(schema, variant, "validate")
FailsValidation(p) ==
    Malformed(At(schema, variant, p).node) \/ FailsItself(p, "validate")
\* what the validate pass raises when it fails at position p
Raised(p) ==
    IF Malformed(At(schema, variant, p).node) THEN TypeError
    ELSE LET e == Outcome(p, "validate")
         IN ValidationError(e.value, e.message, Render(p, e.trace))

\* C6 as stated.  A missing required key is a failure at the position of that
\* key; the keys a dict value has come in the order of the value, and a
\* missing key comes where the schema has it.
ClaimedChildBefore(c, a, b) ==
    IF a.s \in {"list", "tuple"} THEN a.i < b.i
    ELSE IF a.s = "key" /\ b.s = "key"
    THEN KeyIndex(At(schema, variant, c).value.items, a.k)
         < KeyIndex(At(schema, variant, c).value.items, b.k)
    ELSE KeyIndex(At(schema, variant, c).node.items, a.k)
         < KeyIndex(At(schema, variant, c).node.items, b.k)
ClaimedFailures ==
    {p \in ValidatePaths : FailsValidation(p) /\ MissingKeys(p) = {}}
    \cup UNION {{Append(c, MissingStep(k)) : k \in MissingKeys(c)} : c \in ValidatePaths}
ClaimedRaised(p) ==
    IF p # <<>> /\ p[Len(p)].s = "missing"
    THEN MissingKeyError(SubSeq(p, 1, Len(p) - 1), p[Len(p)].k)
    ELSE Raised(p)

\* C6, as stated: the error of the validate pass is the one for the first
\* failing position in depth-first, left-to-right order, and no failure later
\* in that order, a missing required key of a mapping included, is reported
\* in preference to an earlier one.
C6_FirstFailureInTraversalOrder ==
    (Validated /\ ~verdict.ok) =>
        \E p \in ClaimedFailures :
            /\ verdict = ClaimedRaised(p)
            /\ \A q \in ClaimedFailures : ~Before(q, p, ClaimedChildBefore)

\* C6 amended.  A missing required key is a failure of the dict node itself,
\* which comes before everything below the node; the keys of a dict come in
\* the order of the value.
ChildBefore(c, a, b) ==
    IF a.s \in {"list", "tuple"} THEN a.i < b.i
    ELSE KeyIndex(At(schema, variant, c).value.items, a.k)
         < KeyIndex(At(schema, variant, c).value.items, b.k)
Failures == {p \in ValidatePaths : FailsValidation(p)}
\* the first required key, in the order of the schema, that the value lacks
FirstMissingKey(c) ==
    LET items == At(schema, variant, c).node.items
    IN items[CHOOSE i \in 1..Len(items) :
                /\ items[i].k \in MissingKeys(c)
                /\ \A j \in 1..(i - 1) : items[j].k \notin MissingKeys(c)].k

\* C6, amended: the validate pass fails iff some position fails, and its
\* error is the one for the first failing position in depth-first order
\* (the keys of a mapping in the iteration order of the input, indices and
\* slots ascending), where a mapping is checked for missing required keys, in
\* the order of the schema, before any value under its keys is validated: a
\* missing required key is reported in preference to any failure below the
\* mapping.
C6_FirstFailureMissingKeysFirst ==
    Validated =>
        /\ verdict.ok <=> Failures = {}
        /\ ~verdict.ok =>
              \E p \in Failures :
                  /\ \A q \in Failures : q = p \/ Before(p, q, ChildBefore)
                  /\ verdict = Raised(p)
                  /\ MissingKeys(p) # {} =>
                        verdict = MissingKeyError(p, FirstMissingKey(p))

\* a dict lacks a required key and holds a value that does not validate under
\* a key the schema has before the missing one: the missing key is reported
C6_Witness ==
    /\ Validated /\ schema.t = "dict" /\ variant.t = "dict"
    /\ Len(schema.items) = 2
    /\ HasKey(variant.items, schema.items[1].k)
    /\ ~_validate(Lookup(variant.items, schema.items[1].k), schema.items[1].v, "").ok
    /\ MissingKeys(<<>>) = {schema.items[2].k}
    /\ verdict = MissingKeyError(<<>>, schema.items[2].k)
====
